---- MODULE Spec2Model ----
(***************************************************************************)
(* A model of the daily-paper agent's two cores:                           *)
(*   - tools/top_paper_getter.py : date validation, primary/legacy dataset *)
(*     fallback, backward date-window search, record normalisation;        *)
(*   - tools/slack_poster.py     : the markdown-to-mrkdwn line transducer  *)
(*     and the block chunker.                                              *)
(* Python strings are modelled as sequences of one-character strings, so   *)
(* that prefix tests, splits, strips and regular-expression rewrites are   *)
(* computed character by character.  A character outside ASCII, and the   *)
(* backtick, is written by its code point ("U+0060").                      *)
(***************************************************************************)
EXTENDS Integers, Sequences, FiniteSets, TLC

(***************************************************************************)
(* Generic string helpers (Python str methods).                            *)
(***************************************************************************)

\* str.startswith(p)
StartsWith(s, p) == Len(p) <= Len(s) /\ SubSeq(s, 1, Len(p)) = p

\* str.endswith(p)
EndsWith(s, p) == Len(p) <= Len(s) /\ SubSeq(s, Len(s) - Len(p) + 1, Len(s)) = p

\* c in s
Contains(s, c) == \E k \in 1..Len(s) : s[k] = c

\* 1-based index of the first occurrence of character c in s, 0 when absent
IndexOf(s, c) ==
    IF Contains(s, c)
    THEN CHOOSE k \in 1..Len(s) : s[k] = c /\ \A j \in 1..(k - 1) : s[j] # c
    ELSE 0

\* s.split(c)[0]
SplitFirst(s, c) == IF Contains(s, c) THEN SubSeq(s, 1, IndexOf(s, c) - 1) ELSE s

\* s[k:] with k 0-based
DropFirst(s, k) == SubSeq(s, k + 1, Len(s))

\* The whitespace characters that occur in the modelled alphabets.
IsSpace(c) == c \in {" ", "\t", "\n", "\r"}

\* Number of leading whitespace characters: len(s) - len(s.lstrip())
RECURSIVE LeadingSpaces(_)
LeadingSpaces(s) ==
    IF s = <<>> \/ ~IsSpace(s[1]) THEN 0 ELSE 1 + LeadingSpaces(Tail(s))

\* Number of trailing whitespace characters
RECURSIVE TrailingSpaces(_)
TrailingSpaces(s) ==
    IF s = <<>> \/ ~IsSpace(s[Len(s)]) THEN 0
    ELSE 1 + TrailingSpaces(SubSeq(s, 1, Len(s) - 1))

\* s.lstrip()
LStrip(s) == DropFirst(s, LeadingSpaces(s))

\* s.strip()
Strip(s) ==
    LET l == LStrip(s) IN SubSeq(l, 1, Len(l) - TrailingSpaces(l))

\* s.split(c): the list of pieces between occurrences of character c
RECURSIVE Split(_, _)
Split(s, c) ==
    IF ~Contains(s, c) THEN <<s>>
    ELSE <<SubSeq(s, 1, IndexOf(s, c) - 1)>> \o Split(DropFirst(s, IndexOf(s, c)), c)

\* s.replace(a, b) for single characters
Replace(s, a, b) == [k \in 1..Len(s) |-> IF s[k] = a THEN b ELSE s[k]]

Digits == <<"0", "1", "2", "3", "4", "5", "6", "7", "8", "9">>

IsDigit(c) == \E n \in 1..10 : Digits[n] = c

DigitVal(c) == (CHOOSE n \in 1..10 : Digits[n] = c) - 1

\* All sequences over alphabet A of length at most n
SeqsUpTo(A, n) == UNION {[1..k -> A] : k \in 0..n}

(***************************************************************************)
(* Python values that a record field can hold: a string, a list, a number  *)
(* or a JSON literal.  One record shape is used for all of them.           *)
(***************************************************************************)

VStr(s) == [t |-> "str", s |-> s, items |-> <<>>]

VNum(s) == [t |-> "num", s |-> s, items |-> <<>>]

VLit(s) == [t |-> "lit", s |-> s, items |-> <<>>]

VList(items) == [t |-> "list", s |-> <<>>, items |-> items]

DQ == "\""

(***************************************************************************)
(* json.loads, as the standard decoder scans: optional whitespace, one     *)
(* value (string, number, array, literal), optional whitespace, end of     *)
(* input.  Objects, exponents and \u escapes are not modelled; the         *)
(* alphabets below contain none of '{', 'e', 'E', 'u' after a backslash.   *)
(***************************************************************************)

JsonFail == [ok |-> FALSE, v |-> VLit(<<>>), p |-> 0]

JsonOk(v, p) == [ok |-> TRUE, v |-> v, p |-> p]

RECURSIVE SkipWs(_, _)
SkipWs(s, p) == IF p <= Len(s) /\ IsSpace(s[p]) THEN SkipWs(s, p + 1) ELSE p

\* The body of a string, from the character after the opening quote.
RECURSIVE ScanString(_, _, _)
ScanString(s, p, acc) ==
    IF p > Len(s) THEN JsonFail
    ELSE IF s[p] = DQ THEN JsonOk(VStr(acc), p + 1)
    ELSE IF s[p] \in {"\n", "\t", "\r"} THEN JsonFail
    ELSE IF s[p] = "\\"
         THEN IF p + 1 > Len(s) THEN JsonFail
              ELSE IF s[p + 1] \in {DQ, "\\", "/"}
                   THEN ScanString(s, p + 2, Append(acc, s[p + 1]))
              ELSE IF s[p + 1] = "n" THEN ScanString(s, p + 2, Append(acc, "\n"))
              ELSE IF s[p + 1] = "t" THEN ScanString(s, p + 2, Append(acc, "\t"))
              ELSE IF s[p + 1] = "r" THEN ScanString(s, p + 2, Append(acc, "\r"))
              ELSE JsonFail
    ELSE ScanString(s, p + 1, Append(acc, s[p]))

\* End (exclusive) of the maximal run of digits starting at p
RECURSIVE DigitsEnd(_, _)
DigitsEnd(s, p) == IF p <= Len(s) /\ IsDigit(s[p]) THEN DigitsEnd(s, p + 1) ELSE p

\* NUMBER_RE: -?(0|[1-9]\d*)(\.\d+)? matched at p
ScanNumber(s, p) ==
    LET q  == IF s[p] = "-" THEN p + 1 ELSE p
        ie == IF q <= Len(s) /\ s[q] = "0" THEN q + 1 ELSE DigitsEnd(s, q)
        fe == IF ie <= Len(s) /\ s[ie] = "." /\ DigitsEnd(s, ie + 1) > ie + 1
              THEN DigitsEnd(s, ie + 1) ELSE ie
    IN  IF ie = q THEN JsonFail ELSE JsonOk(VNum(SubSeq(s, p, fe - 1)), fe)

JsonLiterals ==
    { <<"n", "u", "l", "l">>, <<"t", "r", "u", "e">>, <<"f", "a", "l", "s", "e">>,
      <<"N", "a", "N">>, <<"I", "n", "f", "i", "n", "i", "t", "y">>,
      <<"-", "I", "n", "f", "i", "n", "i", "t", "y">> }

ScanLiteral(s, p) ==
    IF \E l \in JsonLiterals : StartsWith(DropFirst(s, p - 1), l)
    THEN LET l == CHOOSE l \in JsonLiterals : StartsWith(DropFirst(s, p - 1), l)
         IN  JsonOk(VLit(l), p + Len(l))
    ELSE JsonFail

RECURSIVE ScanOnce(_, _)
RECURSIVE ScanArrayItems(_, _, _)

\* scan_once: one JSON value starting exactly at p
ScanOnce(s, p) ==
    IF p > Len(s) THEN JsonFail
    ELSE IF s[p] = DQ THEN ScanString(s, p + 1, <<>>)
    ELSE IF s[p] = "["
         THEN LET q == SkipWs(s, p + 1)
              IN  IF q <= Len(s) /\ s[q] = "]" THEN JsonOk(VList(<<>>), q + 1)
                  ELSE ScanArrayItems(s, q, <<>>)
    ELSE IF IsDigit(s[p]) THEN ScanNumber(s, p)
    ELSE IF s[p] = "-" /\ p + 1 <= Len(s) /\ IsDigit(s[p + 1]) THEN ScanNumber(s, p)
    ELSE ScanLiteral(s, p)

\* JSONArray's loop: value, whitespace, then ',' (whitespace, next value) or ']'
ScanArrayItems(s, p, acc) ==
    LET r == ScanOnce(s, p)
    IN  IF ~r.ok THEN JsonFail
        ELSE LET q == SkipWs(s, r.p)
             IN  IF q > Len(s) THEN JsonFail
                 ELSE IF s[q] = "]" THEN JsonOk(VList(Append(acc, r.v)), q + 1)
                 ELSE IF s[q] = ","
                      THEN ScanArrayItems(s, SkipWs(s, q + 1), Append(acc, r.v))
                 ELSE JsonFail

\* json.loads(s): ok = FALSE stands for JSONDecodeError
JsonLoads(s) ==
    LET r == ScanOnce(s, SkipWs(s, 1))
    IN  IF r.ok /\ SkipWs(s, r.p) = Len(s) + 1 THEN r ELSE JsonFail

\* [a.strip() for a in s.split(",")]
CommaSplit(s) ==
    LET pieces == Split(s, ",")
    IN  VList([k \in 1..Len(pieces) |-> VStr(Strip(pieces[k]))])

\* The authors coercion of the selected row: a string is parsed as JSON after
\* replacing single quotes by double quotes; a parse failure falls back to the
\* comma split; a non-string value is left alone.
NormalizeAuthors(a) ==
    IF a.t = "str"
    THEN LET j == JsonLoads(Replace(a.s, "'", DQ))
         IN  IF j.ok THEN j.v ELSE CommaSplit(a.s)
    ELSE a

(***************************************************************************)
(* Dates.  A date is its day number within 2024 (1 = 2024-01-01); the      *)
(* inputs below stay inside that year.  strftime and strptime convert      *)
(* between day numbers and "%Y-%m-%d" strings.                             *)
(***************************************************************************)

DaysInMonth == <<31, 29, 31, 30, 31, 30, 31, 31, 30, 31, 30, 31>>

RECURSIVE DaysBefore(_)
DaysBefore(m) == IF m <= 1 THEN 0 ELSE DaysBefore(m - 1) + DaysInMonth[m - 1]

MonthOf(o) == CHOOSE m \in 1..12 : DaysBefore(m) < o /\ o <= DaysBefore(m) + DaysInMonth[m]

DayOf(o) == o - DaysBefore(MonthOf(o))

Pad2(n) == <<Digits[(n \div 10) + 1], Digits[(n % 10) + 1]>>

YearChars == <<"2", "0", "2", "4">>

\* d.strftime("%Y-%m-%d")
Strftime(o) == YearChars \o <<"-">> \o Pad2(MonthOf(o)) \o <<"-">> \o Pad2(DayOf(o))

\* The value of a string of one or two digits
NumVal(s) == IF Len(s) = 1 THEN DigitVal(s[1]) ELSE 10 * DigitVal(s[1]) + DigitVal(s[2])

\* %m: 1[0-2] | 0[1-9] | [1-9]
MonthForm(s) ==
    /\ Len(s) \in 1..2
    /\ \A k \in 1..Len(s) : IsDigit(s[k])
    /\ NumVal(s) \in 1..12

\* %d: 3[01] | [12]\d | 0[1-9] | [1-9] | " "[1-9]
DayForm(s) ==
    \/ /\ Len(s) \in 1..2
       /\ \A k \in 1..Len(s) : IsDigit(s[k])
       /\ NumVal(s) \in 1..31
    \/ /\ Len(s) = 2
       /\ s[1] = " "
       /\ IsDigit(s[2])
       /\ DigitVal(s[2]) \in 1..9

DayVal(s) == IF s[1] = " " THEN DigitVal(s[2]) ELSE NumVal(s)

\* datetime.strptime(s, "%Y-%m-%d"): the day number, or 0 for ValueError (the
\* format does not match, data remains unconverted, or the day is out of range
\* for the month).  The format accepts one-digit months and days.
Strptime(s) ==
    IF /\ Len(s) >= 8
       /\ SubSeq(s, 1, 4) = YearChars
       /\ s[5] = "-"
       /\ \E ml \in 1..2 :
            /\ 7 + ml <= Len(s)
            /\ s[6 + ml] = "-"
            /\ MonthForm(SubSeq(s, 6, 5 + ml))
            /\ DayForm(SubSeq(s, 7 + ml, Len(s)))
            /\ DayVal(SubSeq(s, 7 + ml, Len(s))) <= DaysInMonth[NumVal(SubSeq(s, 6, 5 + ml))]
    THEN LET ml == CHOOSE ml \in 1..2 : 7 + ml <= Len(s) /\ s[6 + ml] = "-"
                                         /\ MonthForm(SubSeq(s, 6, 5 + ml))
         IN  DaysBefore(NumVal(SubSeq(s, 6, 5 + ml))) + DayVal(SubSeq(s, 7 + ml, Len(s)))
    ELSE 0

(***************************************************************************)
(* tools/top_paper_getter.py                                               *)
(***************************************************************************)

\* Bounds of the explored inputs.
MaxRows == 2

MaxUpvotes == 2

MaxLookBack == 1

\* Default of max_days_to_look_back
DefaultMaxDays == 7

\* "https://arxiv.org/pdf/{paper_id}".format(paper_id = id)
ArxivPdfUrl(id) ==
    <<"h", "t", "t", "p", "s", ":", "/", "/", "a", "r", "x", "i", "v", ".",
      "o", "r", "g", "/", "p", "d", "f", "/">> \o id

\* The date strings handed to get_top_paper_pdf_url: absent/empty, two
\* well-formed dates, a date with one-digit month and day, an impossible day,
\* another format, and a timestamp.
DateInputs ==
    { <<>>,
      <<"2", "0", "2", "4", "-", "0", "3", "-", "0", "1">>,
      <<"2", "0", "2", "4", "-", "0", "3", "-", "0", "2">>,
      <<"2", "0", "2", "4", "-", "3", "-", "1">>,
      <<"2", "0", "2", "4", "-", "0", "2", "-", "3", "0">>,
      <<"0", "3", "/", "0", "1", "/", "2", "0", "2", "4">>,
      <<"2", "0", "2", "4", "-", "0", "3", "-", "0", "1", "T">> }

\* The days datetime.now() can fall on.
TodayDays == {61, 62}

\* The target dates of the direct calls of _get_top_paper_by_date
DirectDays == {61}

\* Identifiers of the papers in the datasets: one bare, one with a version.
Id1 == <<"2", "5", ".", "1">>

Id2 == <<"2", "5", ".", "1", "v", "2">>

Ids == {Id1, Id2}

\* The authors field each paper carries: a list, or a string encoding one.
AuthorsOf(id) ==
    IF id = Id1 THEN VList(<<VStr(<<"a">>)>>) ELSE VStr(<<"a", ",", " ", "b">>)

\* (day of the date field, day of the created field) of the dataset rows
DayPairs == {<<61, 60>>, <<60, 61>>, <<53, 61>>}

\* All sets of at most n elements of S
Tables(S, n) == UNION {{{f[i] : i \in 1..k} : f \in [1..k -> S]} : k \in 0..n}

\* A dataset row.  dday and cday are the day numbers its date and created
\* strings were written from; they are no columns.  stamped rows carry a time
\* of day after the date.
MkRow(id, key, days, stamped) ==
    [ paper_id |-> id, arxiv_id |-> id, upvotes |-> key, score |-> key,
      date     |-> Strftime(days[1]) \o (IF stamped THEN <<" ", "0", "9">> ELSE <<>>),
      created  |-> Strftime(days[2]) \o (IF stamped THEN <<"T", "0", "9">> ELSE <<>>),
      authors  |-> AuthorsOf(id),
      dday |-> days[1], cday |-> days[2] ]

\* Column sets (and time stamping) of hysts-bot-data/daily-papers
PaperSchemas ==
    { [cols |-> {"arxiv_id", "date", "created", "authors"}, stamped |-> FALSE],
      [cols |-> {"arxiv_id", "date", "authors"}, stamped |-> TRUE],
      [cols |-> {"arxiv_id", "created", "authors"}, stamped |-> TRUE],
      [cols |-> {"arxiv_id", "authors"}, stamped |-> FALSE] }

\* Column set of hysts-bot-data/daily-papers-stats
StatsCols == {"arxiv_id", "upvotes"}

\* Column sets of justinxzhao/hf_daily_papers
LegacySchemas ==
    { [cols |-> {"paper_id", "upvotes", "date", "authors"}, stamped |-> TRUE],
      [cols |-> {"arxiv_id", "score", "created", "authors"}, stamped |-> TRUE],
      [cols |-> {"arxiv_id", "date", "created"}, stamped |-> FALSE],
      [cols |-> {"paper_id", "arxiv_id", "upvotes", "date", "created", "authors"},
       stamped |-> FALSE] }

PaperTables ==
    { [cols |-> sc.cols, rows |-> {MkRow(c[1], 0, c[2], sc.stamped) : c \in T}] :
        sc \in PaperSchemas, T \in Tables(Ids \X DayPairs, MaxRows) }

StatsTables ==
    { [cols |-> StatsCols, rows |-> T] :
        T \in Tables([arxiv_id : Ids, upvotes : 1..MaxUpvotes], MaxRows) }

LegacyTables ==
    { [cols |-> sc.cols, rows |-> {MkRow(c[1], c[2], c[3], sc.stamped) : c \in T}] :
        sc \in LegacySchemas, T \in Tables(Ids \X (1..MaxUpvotes) \X DayPairs, MaxRows) }

NoTable == [cols |-> {}, rows |-> {}]

NoRow == MkRow(<<>>, 0, <<1, 1>>, FALSE)

NoPaper == [cols |-> {}, row |-> NoRow]

NoErr == [kind |-> "none", days |-> 0, target |-> <<>>, inner |-> "none"]

\* ValueError(f"Invalid date format: {date}. Expected YYYY-MM-DD.")
InvalidDateErr(d) == [kind |-> "InvalidDate", days |-> 0, target |-> d, inner |-> "none"]

\* ValueError(f"No papers found within {max_days_to_look_back} days of {target_date}")
NoPapersErr(w, td) == [kind |-> "NoPapersFound", days |-> w, target |-> td, inner |-> "none"]

\* ValueError(f"Failed to load datasets: {str(e2)}")
FailedToLoadErr(e2) ==
    [kind |-> "FailedToLoad", days |-> e2.days, target |-> e2.target, inner |-> e2.kind]

\* The exception load_dataset raises
LoadErr == [kind |-> "LoadError", days |-> 0, target |-> <<>>, inner |-> "none"]

\* The ValueError of datetime.strptime
StrptimeErr(d) == [kind |-> "StrptimeError", days |-> 0, target |-> d, inner |-> "none"]

\* dict.get(name, default) on row.to_dict()
Get(paper, name, default) == IF name \in paper.cols THEN paper.row[name] ELSE default

\* pd.merge(papers_df, stats_df, on="arxiv_id", how="inner")
Merge(papers, stats) ==
    [ cols |-> papers.cols \cup stats.cols,
      rows |-> { [p EXCEPT !.upvotes = st.upvotes, !.score = st.upvotes] :
                   <<p, st>> \in { x \in papers.rows \X stats.rows :
                                     x[1].arxiv_id = x[2].arxiv_id } } ]

\* score_column = "upvotes" if "upvotes" in df.columns else "score";
\* "none" when that column is missing and the table stays unsorted
ScoreColumn(cols) ==
    IF "upvotes" \in cols THEN "upvotes" ELSE IF "score" \in cols THEN "score" ELSE "none"

\* Mutant of CheckDate: the search walks forward in time.
CheckDateForward(target_date_obj, back) == target_date_obj + back

\* check_date = target_date_obj - timedelta(days=days_back)
CheckDate(target_date_obj, back) == target_date_obj - back

\* x.split("T")[0] if "T" in x else x
CreatedDatePart(x) == SplitFirst(x, "T")

\* The filter if it went by the date column alone whenever there is one
DatePapersDateFieldOnly(t, check_date_str) ==
    IF "date" \in t.cols
    THEN {r \in t.rows : StartsWith(r.date, check_date_str)}
    ELSE IF "created" \in t.cols
    THEN {r \in t.rows : CreatedDatePart(r.created) = check_date_str}
    ELSE {}

\* The rows kept for one candidate date: the rows whose date string starts with
\* check_date_str when there is a date column; if that leaves nothing (or there
\* is no date column) and there is a created column, the rows whose created
\* date part equals check_date_str.
DatePapers(t, check_date_str) ==
    LET by_date == IF "date" \in t.cols
                   THEN {r \in t.rows : StartsWith(r.date, check_date_str)}
                   ELSE {}
    IN  IF by_date = {} /\ "created" \in t.cols
        THEN {r \in t.rows : CreatedDatePart(r.created) = check_date_str}
        ELSE by_date

\* Mutant of TopRows: the table was never sorted.
TopRowsUnsorted(date_papers, cols) == date_papers

\* date_papers.iloc[0] after sort_values(by = score column, ascending=False):
\* a row of the highest score; rows of equal score come in no defined order.
\* Without a score column the table keeps the dataset's order, so any row of
\* date_papers can come first.
TopRows(date_papers, cols) ==
    IF ScoreColumn(cols) = "none" THEN date_papers
    ELSE {r \in date_papers :
            \A q \in date_papers : q[ScoreColumn(cols)] <= r[ScoreColumn(cols)]}

\* Mutant of StripVersion: the identifier is kept as it is.
StripVersionKept(paper_id) == paper_id

\* if "v" in paper_id: paper_id = paper_id.split("v")[0]
StripVersion(paper_id) == SplitFirst(paper_id, "v")

VARIABLES
    pc,                     \* where the resolver call stands
    entry,                  \* the function called from outside
    date,                   \* get_top_paper_pdf_url: the date argument as given
    target_date,            \* _get_top_paper_by_date: target_date
    max_days_to_look_back,  \* _get_top_paper_by_date: max_days_to_look_back
    loads,                  \* the load_dataset calls made so far, in order
    legacy_calls,           \* arguments of the calls of the legacy function
    daily_papers,           \* the loaded daily-papers table
    df,                     \* merged_df (primary) or df (legacy), sorted
    path,                   \* whose loop is running: "primary" or "legacy"
    days_back,              \* loop variable of the date search
    examined,               \* the check_date_str values computed so far
    legacy_ret,             \* what the legacy function returned
    top_paper,              \* what _get_top_paper_by_date returned
    err,                    \* the exception raised to the caller
    out                     \* the record get_top_paper_pdf_url returned

rvars == <<pc, entry, date, target_date, max_days_to_look_back, loads, legacy_calls,
           daily_papers, df, path, days_back, examined, legacy_ret, top_paper, err, out>>

VARIABLES
    apc,          \* "start" before the coercion, "done" after it
    authors_in,   \* top_paper["authors"] of the selected row
    authors_out   \* top_paper["authors"] after lines 131-136

avars == <<apc, authors_in, authors_out>>

VARIABLES
    fpc,                \* where the _format_paper_blocks call stands
    paper,              \* the paper dictionary handed to _format_paper_blocks
    blocks,             \* the block list built so far
    lines,              \* _format_markdown_for_slack: lines
    i,                  \* index of the line the loop is at
    formatted_lines,    \* the lines emitted so far
    in_list,            \* a list item was the last list-relevant line
    list_indent,        \* indent of the most recent bullet item
    prev_was_empty,     \* the previous line was blank
    formatted_summary,  \* what _format_markdown_for_slack returned
    start               \* cursor of the chunk loop

fvars == <<fpc, paper, blocks, lines, i, formatted_lines, in_list, list_indent,
           prev_was_empty, formatted_summary, start>>

VARIABLES
    tpc,          \* "start" before the _truncate_text call, "done" after it
    trunc_text,   \* _truncate_text: text
    trunc_limit,  \* _truncate_text: max_length
    trunc_out     \* what _truncate_text returned

tvars == <<tpc, trunc_text, trunc_limit, trunc_out>>

VARIABLES
    ipc,          \* "start" before the _process_inline_formatting call, "done" after it
    inline_segs,  \* the pieces the argument is made of
    inline_text,  \* _process_inline_formatting: text
    inline_out    \* what _process_inline_formatting returned

ivars == <<ipc, inline_segs, inline_text, inline_out>>

VARIABLES
    md_text,      \* _format_markdown_for_slack: text, when it is called on its own
    pass,         \* 0 inside _format_paper_blocks, else the number of the call
    first_out     \* what the first of two calls in a row returned

pvars == <<md_text, pass, first_out>>

VARIABLES
    cpc,                   \* where the check_slack_posting call stands
    new_items,             \* result.new_items
    slack_post_tool_call,  \* None (the empty sequence) or the item found
    slack_post_result,     \* None (the empty sequence) or the dictionary found
    check_ret              \* what check_slack_posting returned, or that it raised

cvars == <<cpc, new_items, slack_post_tool_call, slack_post_result, check_ret>>

VARIABLES
    spc,          \* where the post_paper_to_slack call stands
    channel,      \* post_paper_to_slack: channel
    slack_token,  \* what the environment holds for SLACK_API_TOKEN
    api_calls,    \* the chat_postMessage calls made, in order
    post_ret      \* what post_paper_to_slack returned, or that it raised

svars == <<spc, channel, slack_token, api_calls, post_ret>>

VARIABLES
    phase,   \* "alone": the calls run one after the other; "together": interleaved
    call,    \* the call whose frame is the running one, 1 or 2
    inputs,  \* the papers of the two calls
    alone,   \* the block lists the calls returned when they ran alone
    parked   \* the frame of the call that is not running, or none

kvars == <<phase, call, inputs, alone, parked>>

ovars == <<cvars, svars, kvars>>

\* check_slack_posting has not been called
NoCheckRet ==
    [kind |-> "none", keys |-> {}, slack_post_successful |-> FALSE,
     error |-> <<>>, message_url |-> <<>>, channel |-> <<>>]

CheckIdle ==
    /\ cpc = "idle"
    /\ new_items = <<>>
    /\ slack_post_tool_call = <<>>
    /\ slack_post_result = <<>>
    /\ check_ret = NoCheckRet

\* post_paper_to_slack has not been called
NoPostRet ==
    [kind |-> "none", keys |-> {}, success |-> FALSE, error |-> <<>>,
     channel |-> <<>>, message_ts |-> <<>>, message_url |-> <<>>]

PostIdle ==
    /\ spc = "idle"
    /\ channel = <<>>
    /\ slack_token = "None"
    /\ api_calls = <<>>
    /\ post_ret = NoPostRet

PairIdle ==
    /\ phase = "idle"
    /\ call = 0
    /\ inputs = <<>>
    /\ alone = <<>>
    /\ parked = <<>>

NoOut == [paper_id |-> <<>>, pdf_url |-> <<>>, authors |-> VList(<<>>),
          upvotes |-> 0, date |-> <<>>]

ResolverInit ==
    /\ pc = "idle"
    /\ entry = "none"
    /\ date = <<>>
    /\ target_date = <<>>
    /\ max_days_to_look_back = 0
    /\ loads = <<>>
    /\ legacy_calls = <<>>
    /\ daily_papers = NoTable
    /\ df = NoTable
    /\ path = "none"
    /\ days_back = 0
    /\ examined = <<>>
    /\ legacy_ret = NoPaper
    /\ top_paper = NoPaper
    /\ err = NoErr
    /\ out = NoOut

\* Mutant of ValidateDate: the date is handed on without the strptime check.
ValidateDateUnchecked(d, today) ==
    /\ date' = d
    /\ entry' = "get_top_paper_pdf_url"
    /\ target_date' = (IF d = <<>> THEN Strftime(today) ELSE d)
    /\ max_days_to_look_back' = DefaultMaxDays
    /\ pc' = "by_date"
    /\ UNCHANGED err

\* get_top_paper_pdf_url, lines 34-45: an absent or empty date becomes today's
\* date; a date strptime rejects raises the invalid-date error; otherwise
\* _get_top_paper_by_date is called with the default look-back.
ValidateDate(d, today) ==
    LET used == IF d = <<>> THEN Strftime(today) ELSE d
    IN  /\ date' = d
        /\ entry' = "get_top_paper_pdf_url"
        /\ IF Strptime(used) = 0
           THEN /\ err' = InvalidDateErr(used)
                /\ pc' = "raised"
                /\ UNCHANGED <<target_date, max_days_to_look_back>>
           ELSE /\ target_date' = used
                /\ max_days_to_look_back' = DefaultMaxDays
                /\ pc' = "by_date"
                /\ UNCHANGED err

GetTopPaperPdfUrl ==
    /\ pc = "idle"
    /\ \E d \in DateInputs, today \in TodayDays : ValidateDate(d, today)
    /\ UNCHANGED <<loads, legacy_calls, daily_papers, df, path, days_back, examined,
                   legacy_ret, top_paper, out>>
    /\ UNCHANGED <<avars, fvars, tvars, ivars, pvars, ovars>>

\* A direct call _get_top_paper_by_date(target_date, max_days_to_look_back), as
\* the unit test makes it.
CallGetTopPaperByDate ==
    /\ pc = "idle"
    /\ \E td \in {Strftime(d) : d \in DirectDays}, w \in 0..MaxLookBack :
         /\ target_date' = td
         /\ max_days_to_look_back' = w
    /\ entry' = "_get_top_paper_by_date"
    /\ pc' = "by_date"
    /\ UNCHANGED <<date, loads, legacy_calls, daily_papers, df, path, days_back,
                   examined, legacy_ret, top_paper, err, out>>
    /\ UNCHANGED <<avars, fvars, tvars, ivars, pvars, ovars>>

\* _get_top_paper_by_date, line 81
ParseTargetDate ==
    /\ pc = "by_date"
    /\ IF Strptime(target_date) = 0
       THEN pc' = "raised" /\ err' = StrptimeErr(target_date)
       ELSE pc' = "load_papers" /\ UNCHANGED err
    /\ UNCHANGED <<entry, date, target_date, max_days_to_look_back, loads, legacy_calls,
                   daily_papers, df, path, days_back, examined, legacy_ret, top_paper, out>>
    /\ UNCHANGED <<avars, fvars, tvars, ivars, pvars, ovars>>

\* line 85, load_dataset("hysts-bot-data/daily-papers") returns
LoadPapersOk ==
    /\ pc = "load_papers"
    /\ \E t \in PaperTables : daily_papers' = t
    /\ loads' = Append(loads, [name |-> "daily-papers", ok |-> TRUE])
    /\ pc' = "load_stats"
    /\ UNCHANGED <<entry, date, target_date, max_days_to_look_back, legacy_calls, df,
                   path, days_back, examined, legacy_ret, top_paper, err, out>>
    /\ UNCHANGED <<avars, fvars, tvars, ivars, pvars, ovars>>

\* Where control goes when a primary load raises: the except clause of line 87
AfterPrimaryFailure == "call_legacy"

\* line 85, load_dataset("hysts-bot-data/daily-papers") raises
LoadPapersFails ==
    /\ pc = "load_papers"
    /\ loads' = Append(loads, [name |-> "daily-papers", ok |-> FALSE])
    /\ pc' = AfterPrimaryFailure
    /\ UNCHANGED <<entry, date, target_date, max_days_to_look_back, legacy_calls,
                   daily_papers, df, path, days_back, examined, legacy_ret, top_paper,
                   err, out>>
    /\ UNCHANGED <<avars, fvars, tvars, ivars, pvars, ovars>>

\* line 86 returns; lines 95-102: merge and sort
LoadStatsOk ==
    /\ pc = "load_stats"
    /\ \E st \in StatsTables : df' = Merge(daily_papers, st)
    /\ loads' = Append(loads, [name |-> "daily-papers-stats", ok |-> TRUE])
    /\ path' = "primary"
    /\ days_back' = 0
    /\ pc' = "search"
    /\ UNCHANGED <<entry, date, target_date, max_days_to_look_back, legacy_calls,
                   daily_papers, examined, legacy_ret, top_paper, err, out>>
    /\ UNCHANGED <<avars, fvars, tvars, ivars, pvars, ovars>>

\* line 86 raises
LoadStatsFails ==
    /\ pc = "load_stats"
    /\ loads' = Append(loads, [name |-> "daily-papers-stats", ok |-> FALSE])
    /\ daily_papers' = NoTable
    /\ pc' = "call_legacy"
    /\ UNCHANGED <<entry, date, target_date, max_days_to_look_back, legacy_calls, df,
                   path, days_back, examined, legacy_ret, top_paper, err, out>>
    /\ UNCHANGED <<avars, fvars, tvars, ivars, pvars, ovars>>

\* Mutant of LegacyArgs: the look-back is not passed on and the default applies.
LegacyArgsDefaultLookBack == <<target_date, DefaultMaxDays>>

\* The arguments line 90 passes to the legacy function
LegacyArgs == <<target_date, max_days_to_look_back>>

\* line 90: _get_top_paper_from_legacy_dataset(target_date, max_days_to_look_back)
\* is entered; line 158 parses the date again.
CallLegacy ==
    /\ pc = "call_legacy"
    /\ legacy_calls' = Append(legacy_calls, LegacyArgs)
    /\ pc' = "load_legacy"
    /\ UNCHANGED <<entry, date, target_date, max_days_to_look_back, loads, daily_papers,
                   df, path, days_back, examined, legacy_ret, top_paper, err, out>>
    /\ UNCHANGED <<avars, fvars, tvars, ivars, pvars, ovars>>

\* line 161 returns; lines 164-169: the table, sorted when it has a score column
LoadLegacyOk ==
    /\ pc = "load_legacy"
    /\ \E t \in LegacyTables : df' = t
    /\ loads' = Append(loads, [name |-> "hf_daily_papers", ok |-> TRUE])
    /\ path' = "legacy"
    /\ days_back' = 0
    /\ pc' = "search"
    /\ UNCHANGED <<entry, date, target_date, max_days_to_look_back, legacy_calls,
                   daily_papers, examined, legacy_ret, top_paper, err, out>>
    /\ UNCHANGED <<avars, fvars, tvars, ivars, pvars, ovars>>

\* Mutant of LoadLegacyFails: the failed load is swallowed and the date loop
\* runs over an empty table.
LoadLegacyFailsSwallowed ==
    /\ pc = "load_legacy"
    /\ loads' = Append(loads, [name |-> "hf_daily_papers", ok |-> FALSE])
    /\ df' = NoTable
    /\ path' = "legacy"
    /\ days_back' = 0
    /\ pc' = "search"
    /\ UNCHANGED <<entry, date, target_date, max_days_to_look_back, legacy_calls,
                   daily_papers, examined, legacy_ret, top_paper, err, out>>
    /\ UNCHANGED <<avars, fvars, tvars, ivars, pvars, ovars>>

\* line 161 raises: the exception leaves the legacy function and is caught at
\* line 91, which raises "Failed to load datasets".
LoadLegacyFails ==
    /\ pc = "load_legacy"
    /\ loads' = Append(loads, [name |-> "hf_daily_papers", ok |-> FALSE])
    /\ err' = FailedToLoadErr(LoadErr)
    /\ pc' = "raised"
    /\ UNCHANGED <<entry, date, target_date, max_days_to_look_back, legacy_calls,
                   daily_papers, df, path, days_back, examined, legacy_ret, top_paper, out>>
    /\ UNCHANGED <<avars, fvars, tvars, ivars, pvars, ovars>>

\* The parameters of the function whose loop is running: those of
\* _get_top_paper_by_date, or those the legacy function was called with.
LoopTargetDate ==
    IF path = "legacy" THEN legacy_calls[Len(legacy_calls)][1] ELSE target_date

LoopLookBack ==
    IF path = "legacy" THEN legacy_calls[Len(legacy_calls)][2] ELSE max_days_to_look_back

\* The row a loop iteration returns, lines 127-138 and 192-202
Normalized(r) == [cols |-> df.cols,
                  row  |-> IF "authors" \in df.cols
                           THEN [r EXCEPT !.authors = NormalizeAuthors(r.authors)]
                           ELSE r]

\* Mutant of SearchFound: the whole window is scanned and the highest-ranked
\* row of any of its dates is returned.
SearchFoundBestInWindow ==
    /\ pc = "search"
    /\ days_back = 0
    /\ LET D      == Strptime(LoopTargetDate)
           checks == [k \in 1..(LoopLookBack + 1) |-> Strftime(CheckDate(D, k - 1))]
           all    == UNION {DatePapers(df, checks[k]) : k \in 1..Len(checks)}
       IN  /\ all # {}
           /\ examined' = examined \o checks
           /\ \E r \in TopRows(all, df.cols) :
                IF path = "legacy"
                THEN /\ legacy_ret' = Normalized(r)
                     /\ pc' = "legacy_returned"
                     /\ UNCHANGED top_paper
                ELSE /\ top_paper' = Normalized(r)
                     /\ pc' = "returned"
                     /\ UNCHANGED legacy_ret
    /\ UNCHANGED <<entry, date, target_date, max_days_to_look_back, loads, legacy_calls,
                   daily_papers, df, path, days_back, err, out>>
    /\ UNCHANGED <<avars, fvars, tvars, ivars, pvars, ovars>>

\* One iteration of the date loop that finds rows (lines 105-138, 172-202)
SearchFound ==
    /\ pc = "search"
    /\ days_back <= LoopLookBack
    /\ LET check_date_str == Strftime(CheckDate(Strptime(LoopTargetDate), days_back))
           date_papers    == DatePapers(df, check_date_str)
       IN  /\ date_papers # {}
           /\ examined' = Append(examined, check_date_str)
           /\ \E r \in TopRows(date_papers, df.cols) :
                IF path = "legacy"
                THEN /\ legacy_ret' = Normalized(r)
                     /\ pc' = "legacy_returned"
                     /\ UNCHANGED top_paper
                ELSE /\ top_paper' = Normalized(r)
                     /\ pc' = "returned"
                     /\ UNCHANGED legacy_ret
    /\ UNCHANGED <<entry, date, target_date, max_days_to_look_back, loads, legacy_calls,
                   daily_papers, df, path, days_back, err, out>>
    /\ UNCHANGED <<avars, fvars, tvars, ivars, pvars, ovars>>

\* One iteration of the date loop that finds no row
SearchMiss ==
    /\ pc = "search"
    /\ days_back <= LoopLookBack
    /\ LET check_date_str == Strftime(CheckDate(Strptime(LoopTargetDate), days_back))
       IN  /\ DatePapers(df, check_date_str) = {}
           /\ examined' = Append(examined, check_date_str)
    /\ days_back' = days_back + 1
    /\ UNCHANGED <<pc, entry, date, target_date, max_days_to_look_back, loads,
                   legacy_calls, daily_papers, df, path, legacy_ret, top_paper, err, out>>
    /\ UNCHANGED <<avars, fvars, tvars, ivars, pvars, ovars>>

\* line 141: the primary loop ran out of dates
PrimaryNotFound ==
    /\ pc = "search"
    /\ path = "primary"
    /\ days_back > max_days_to_look_back
    /\ err' = NoPapersErr(max_days_to_look_back, target_date)
    /\ pc' = "raised"
    /\ UNCHANGED <<entry, date, target_date, max_days_to_look_back, loads, legacy_calls,
                   daily_papers, df, path, days_back, examined, legacy_ret, top_paper, out>>
    /\ UNCHANGED <<avars, fvars, tvars, ivars, pvars, ovars>>

\* line 205 raises out of the legacy function; the except clause of line 91
\* catches every exception of the legacy call and raises line 92's error.
LegacyNotFound ==
    /\ pc = "search"
    /\ path = "legacy"
    /\ days_back > LoopLookBack
    /\ err' = FailedToLoadErr(NoPapersErr(LoopLookBack, LoopTargetDate))
    /\ pc' = "raised"
    /\ UNCHANGED <<entry, date, target_date, max_days_to_look_back, loads, legacy_calls,
                   daily_papers, df, path, days_back, examined, legacy_ret, top_paper, out>>
    /\ UNCHANGED <<avars, fvars, tvars, ivars, pvars, ovars>>

\* What line 90 returns to the caller of _get_top_paper_by_date
LegacyResult == legacy_ret

\* line 90: return <legacy result>
ReturnLegacy ==
    /\ pc = "legacy_returned"
    /\ top_paper' = LegacyResult
    /\ pc' = "returned"
    /\ UNCHANGED <<entry, date, target_date, max_days_to_look_back, loads, legacy_calls,
                   daily_papers, df, path, days_back, examined, legacy_ret, err, out>>
    /\ UNCHANGED <<avars, fvars, tvars, ivars, pvars, ovars>>

\* get_top_paper_pdf_url, lines 47-64
BuildResult ==
    /\ pc = "returned"
    /\ entry = "get_top_paper_pdf_url"
    /\ LET paper_id == StripVersion(Get(top_paper, "paper_id",
                                        Get(top_paper, "arxiv_id", <<>>)))
       IN  out' = [ paper_id |-> paper_id,
                    pdf_url  |-> ArxivPdfUrl(paper_id),
                    authors  |-> Get(top_paper, "authors", VList(<<>>)),
                    upvotes  |-> Get(top_paper, "upvotes", 0),
                    date     |-> Get(top_paper, "date", <<>>) ]
    /\ pc' = "done"
    /\ UNCHANGED <<entry, date, target_date, max_days_to_look_back, loads, legacy_calls,
                   daily_papers, df, path, days_back, examined, legacy_ret, top_paper, err>>
    /\ UNCHANGED <<avars, fvars, tvars, ivars, pvars, ovars>>

Next ==
    \/ GetTopPaperPdfUrl
    \/ CallGetTopPaperByDate
    \/ ParseTargetDate
    \/ LoadPapersOk
    \/ LoadPapersFails
    \/ LoadStatsOk
    \/ LoadStatsFails
    \/ CallLegacy
    \/ LoadLegacyOk
    \/ LoadLegacyFails
    \/ SearchFound
    \/ SearchMiss
    \/ PrimaryNotFound
    \/ LegacyNotFound
    \/ ReturnLegacy
    \/ BuildResult

(***************************************************************************)
(* The authors coercion on its own: one call on one authors value.         *)
(***************************************************************************)

MaxAuthorsLen == 5

AuthorsAlphabet == {"a", "1", "'", ",", " ", "[", "]"}

\* The authors values tried: every string over the alphabet up to the bound,
\* and two values that are lists already.
AuthorsInputs ==
    {VStr(s) : s \in SeqsUpTo(AuthorsAlphabet, MaxAuthorsLen)}
        \cup {VList(<<>>), VList(<<VStr(<<"a">>), VStr(<<"a", " ", "a">>)>>)}

AuthorsIdle == apc = "idle" /\ authors_in = VList(<<>>) /\ authors_out = VList(<<>>)

AuthorsInit ==
    /\ apc = "start"
    /\ authors_in \in AuthorsInputs
    /\ authors_out = VList(<<>>)

\* isinstance(top_paper["authors"], str) holds: lines 132-136
CoerceAuthorsString ==
    /\ apc = "start"
    /\ authors_in.t = "str"
    /\ authors_out' = NormalizeAuthors(authors_in)
    /\ apc' = "done"
    /\ UNCHANGED authors_in
    /\ UNCHANGED <<rvars, fvars, tvars, ivars, pvars, ovars>>

\* the authors value is no string: it is returned as it is
KeepAuthorsValue ==
    /\ apc = "start"
    /\ authors_in.t # "str"
    /\ authors_out' = NormalizeAuthors(authors_in)
    /\ apc' = "done"
    /\ UNCHANGED authors_in
    /\ UNCHANGED <<rvars, fvars, tvars, ivars, pvars, ovars>>

NextAuthors ==
    \/ CoerceAuthorsString
    \/ KeepAuthorsValue

(***************************************************************************)
(* tools/slack_poster.py                                                   *)
(***************************************************************************)

Min(S) == CHOOSE x \in S : \A y \in S : x <= y

Max(S) == CHOOSE x \in S : \A y \in S : x >= y

\* sub occurs in s at 1-based position p
OccursAt(s, p, sub) ==
    p >= 1 /\ p + Len(sub) - 1 <= Len(s) /\ SubSeq(s, p, p + Len(sub) - 1) = sub

\* s[a:b] for 0 <= a, with Python's clipping of b (negative b counts from the end)
PySlice(s, a, b) ==
    LET e == IF b < 0 THEN Max({0, Len(s) + b}) ELSE Min({b, Len(s)})
    IN  SubSeq(s, a + 1, e)

\* s.rfind(sub, lo, hi): the highest 0-based index at which sub lies inside
\* s[lo:hi], or -1
RFind(s, sub, lo, hi) ==
    LET e    == Min({hi, Len(s)})
        cand == {k \in lo..(e - Len(sub)) : OccursAt(s, k + 1, sub)}
    IN  IF cand = {} THEN -1 ELSE Max(cand)

\* _truncate_text(text, max_length)
TruncateText(text, max_length) ==
    IF Len(text) <= max_length THEN text
    ELSE PySlice(text, 0, max_length - 3) \o <<".", ".", ".">>

Letters ==
    {"a", "b", "c", "d", "e", "f", "g", "h", "i", "j", "k", "l", "m", "n", "o", "p", "q",
     "r", "s", "t", "u", "v", "w", "x", "y", "z", "A", "B", "C", "D", "E", "F", "G", "H",
     "I", "J", "K", "L", "M", "N", "O", "P", "Q", "R", "S", "T", "U", "V", "W", "X", "Y",
     "Z"}

\* The characters outside ASCII the program writes that are letters
NonAsciiLetters == {"U+00E2", "U+00F0", "U+0178"}

\* the regular expression class \w
IsWordChar(c) == c \in Letters \/ c \in NonAsciiLetters \/ IsDigit(c) \/ c = "_"

\* The first position q >= from at which cls occurs with no newline in
\* s[from..q-1] (what a lazy ".*?" followed by cls finds), or 0
FindClose(s, from, cls) ==
    LET cand == {q \in from..(Len(s) - Len(cls) + 1) :
                   /\ OccursAt(s, q, cls)
                   /\ \A j \in from..(q - 1) : s[j] # "\n"}
    IN  IF cand = {} THEN 0 ELSE Min(cand)

\* re.sub of the pattern  opn(.*?)cls  by  ro \1 rc, scanning from position p:
\* leftmost matches, not overlapping
RECURSIVE SubDelim(_, _, _, _, _, _)
SubDelim(s, p, opn, cls, ro, rc) ==
    IF p > Len(s) THEN <<>>
    ELSE IF OccursAt(s, p, opn) /\ FindClose(s, p + Len(opn), cls) # 0
         THEN LET q == FindClose(s, p + Len(opn), cls)
              IN  ro \o SubSeq(s, p + Len(opn), q - 1) \o rc
                     \o SubDelim(s, q + Len(cls), opn, cls, ro, rc)
    ELSE <<s[p]>> \o SubDelim(s, p + 1, opn, cls, ro, rc)

\* End (exclusive) of the maximal run of [\w\s] characters starting at p
RECURSIVE WordRunEnd(_, _)
WordRunEnd(s, p) ==
    IF p <= Len(s) /\ (IsWordChar(s[p]) \/ IsSpace(s[p])) THEN WordRunEnd(s, p + 1) ELSE p

\* re.sub(r'\*\*([\w\s]+):\*\*', r'*\1:*', text), from position p
RECURSIVE SubWordColon(_, _)
SubWordColon(s, p) ==
    IF p > Len(s) THEN <<>>
    ELSE IF /\ OccursAt(s, p, <<"*", "*">>)
            /\ WordRunEnd(s, p + 2) > p + 2
            /\ OccursAt(s, WordRunEnd(s, p + 2), <<":", "*", "*">>)
         THEN LET e == WordRunEnd(s, p + 2)
              IN  <<"*">> \o SubSeq(s, p + 2, e - 1) \o <<":", "*">> \o SubWordColon(s, e + 3)
    ELSE <<s[p]>> \o SubWordColon(s, p + 1)

\* re.sub(r'\*\*(.*?):\*\*', r'*\1:*', text)
SubColonBold(s) == SubDelim(s, 1, <<"*", "*">>, <<":", "*", "*">>, <<"*">>, <<":", "*">>)

\* re.sub(r'\*\*(.*?)\*\*', r'*\1*', text)
SubBold(s) == SubDelim(s, 1, <<"*", "*">>, <<"*", "*">>, <<"*">>, <<"*">>)

\* re.sub(r'__(.*?)__', r'_\1_', text)
SubItalic(s) == SubDelim(s, 1, <<"_", "_">>, <<"_", "_">>, <<"_">>, <<"_">>)

\* _process_inline_formatting(text)
ProcessInlineFormatting(text) == SubItalic(SubBold(SubWordColon(text, 1)))

\* re.sub(r'([^\n])\n([^\n])', r'\1\n\n\2', text), from position p: a single
\* newline between two other characters is doubled; matches do not overlap,
\* so the character after a doubled newline starts no new match.
RECURSIVE EnsureLineBreaks(_, _)
EnsureLineBreaks(s, p) ==
    IF p > Len(s) THEN <<>>
    ELSE IF p + 2 <= Len(s) /\ s[p] # "\n" /\ s[p + 1] = "\n" /\ s[p + 2] # "\n"
         THEN <<s[p], "\n", "\n", s[p + 2]>> \o EnsureLineBreaks(s, p + 3)
    ELSE <<s[p]>> \o EnsureLineBreaks(s, p + 1)

\* '\n'.join(lines)
RECURSIVE JoinLines(_)
JoinLines(ls) ==
    IF ls = <<>> THEN <<>>
    ELSE IF Len(ls) = 1 THEN ls[1]
    ELSE ls[1] \o <<"\n">> \o JoinLines(Tail(ls))

\* End (exclusive) of the run of newlines starting at p
RECURSIVE NewlinesEnd(_, _)
NewlinesEnd(s, p) == IF p <= Len(s) /\ s[p] = "\n" THEN NewlinesEnd(s, p + 1) ELSE p

\* re.sub(r'\n{3,}', '\n\n', result), from position p
RECURSIVE CollapseNewlines(_, _)
CollapseNewlines(s, p) ==
    IF p > Len(s) THEN <<>>
    ELSE IF NewlinesEnd(s, p) - p >= 3
         THEN <<"\n", "\n">> \o CollapseNewlines(s, NewlinesEnd(s, p))
    ELSE <<s[p]>> \o CollapseNewlines(s, p + 1)

\* The bullet the transducer writes before a list item.  The source file
\* holds it as the three characters U+00E2 U+20AC U+00A2; a character outside
\* ASCII is written here by its code point.
Bullet == <<"U+00E2", "U+20AC", "U+00A2">>

\* The character of code fences and inline code
Backtick == "U+0060"

\* The prefixes that keep a line from being a section title (line 158)
TitleExcluded ==
    { <<"#">>, <<"*">>, <<"-">>, <<"+">>, <<"1", ".">>, <<"2", ".">>, <<"3", ".">>,
      <<"4", ".">>, <<"5", ".">>, <<"6", ".">>, <<"7", ".">>, <<"8", ".">>, <<"9", ".">> }

\* len(line.strip()) < 50
SectionTitleLimit == 50

\* lines 158-160: the line is taken for a section title
IsSectionTitle(line) ==
    /\ Strip(line) # <<>>
    /\ ~\E pre \in TitleExcluded : StartsWith(Strip(line), pre)
    /\ EndsWith(Strip(line), <<":">>)
    /\ Len(Strip(line)) < SectionTitleLimit

\* re.match(r'^\s*[\*\-\+] ', line)
IsBulletItem(line) ==
    LET ls == LeadingSpaces(line)
    IN  /\ ls + 2 <= Len(line)
        /\ line[ls + 1] \in {"*", "-", "+"}
        /\ line[ls + 2] = " "

\* re.match(r'^\s*\d+\.\s', line)
IsNumberedItem(line) ==
    LET ls == LeadingSpaces(line)
        de == DigitsEnd(line, ls + 1)
    IN  /\ de > ls + 1
        /\ de + 1 <= Len(line)
        /\ line[de] = "."
        /\ IsSpace(line[de + 1])

\* The branch of the loop body a line takes, in the order the code tests them
LineKind(line) ==
    IF Strip(line) = <<>> THEN "blank"
    ELSE IF IsSectionTitle(line) THEN "title"
    ELSE IF StartsWith(line, <<"#", " ">>) THEN "h1"
    ELSE IF StartsWith(line, <<"#", "#", " ">>) THEN "h2"
    ELSE IF StartsWith(line, <<"#", "#", "#", " ">>) THEN "h3"
    ELSE IF IsBulletItem(line) THEN "bullet"
    ELSE IF IsNumberedItem(line) THEN "numbered"
    ELSE IF StartsWith(line, <<Backtick, Backtick, Backtick>>) THEN "fence"
    ELSE IF StartsWith(line, <<Backtick>>) /\ EndsWith(line, <<Backtick>>) /\ Len(line) > 2
         THEN "inline_code"
    ELSE "other"

\* line[k:].strip() with one trailing colon removed: the text of a heading
HeadingText(line, k) ==
    LET t == Strip(DropFirst(line, k))
    IN  IF EndsWith(t, <<":">>) THEN SubSeq(t, 1, Len(t) - 1) ELSE t

\* The bullet prefix if it went by the depth of the item alone
BulletPrefixByDepth(indent, cur_indent) ==
    IF indent > 0 THEN <<" ", " ", " ">> \o Bullet ELSE Bullet

\* The leading spaces written before the bullet glyph (lines 217-225)
BulletPrefix(indent, cur_indent) ==
    IF indent > cur_indent THEN <<" ", " ", " ">> \o Bullet
    ELSE IF indent < cur_indent /\ indent > 0 THEN <<" ">> \o Bullet
    ELSE Bullet

\* lines 208-214, 237-243: the text of a list item after its marker
ItemContent(line, marker_end) ==
    ProcessInlineFormatting(SubColonBold(DropFirst(line, marker_end)))

\* The indent of a list item if it grew by one space
SpacesOneMore(n) == [k \in 1..(n + 1) |-> " "]

\* ' ' * n
Spaces(n) == [k \in 1..n |-> " "]

\* Slack's text limits are scaled down so that bounded summaries span several
\* chunks: max_chars stands for the 1900 of line 383 and BlockTextLimit for the
\* 1950 of line 414.  The scaling keeps 3 < max_chars < BlockTextLimit.
max_chars == 8

BlockTextLimit == 10

\* _truncate_text(paper.get("title", "Unknown title"), 150)
TitleLimit == 150

\* The mark shown for more than five upvotes: in the source file the four
\* characters U+00F0 U+0178 U+201D U+00A5
Fire == <<"U+00F0", "U+0178", "U+201D", "U+00A5">>

FireThreshold == 5

\* str(n) for 0 <= n < 100
IntStr(n) == IF n < 10 THEN <<Digits[n + 1]>> ELSE Pad2(n)

\* The most lines a summary is put together from
MaxLines == 2

\* A line of exactly SectionTitleLimit characters that ends in a colon, and
\* the line one character shorter
LongLine == [k \in 1..(SectionTitleLimit - 1) |-> "a"] \o <<":">>

LongTitleLine == Tail(LongLine)

LongTitle == [k \in 1..(TitleLimit + 1) |-> "t"]

\* The lines summaries are put together from: blank lines, a section title,
\* headings of the three levels, bullet items at three indents, numbered
\* items, a code fence, inline code, and ordinary lines with bold and italic
\* spans.
LineTemplates ==
    { <<>>,
      <<" ">>,
      <<"a", ":">>,
      <<"#", " ", "a", ":">>,
      <<"#", "#", " ", "a">>,
      <<"#", "#", "#", " ", "a">>,
      <<"-", " ", "a">>,
      <<" ", " ", "*", " ", "*", "*", "a", ":", "*", "*", " ", "b">>,
      <<" ", "+", " ", "a">>,
      <<"1", ".", " ", "a">>,
      <<"1", "0", ".", " ", "b", ":">>,
      <<Backtick, Backtick, Backtick>>,
      <<Backtick, "a", Backtick>>,
      <<"*", "*", "a", "*", "*", " ", "_", "_", "b", "_", "_">>,
      <<"a", " ", "b", " ", "c", "d", "e", "f", "g">>,
      <<"a", "b", "c", "d", "e", "f", "g">>,
      <<"*", "*", " ", "a", "*", "*", " ", "b">> }

\* tests/unit/test_slack_poster.py line 82: the headings of the test
HeadersMarkdown ==
    <<"#", " ", "H", "e", "a", "d", "e", "r", " ", "1", "\n", "#", "#", " ", "H", "e",
      "a", "d", "e", "r", " ", "2", "\n", "#", "#", "#", " ", "H", "e", "a", "d", "e",
      "r", " ", "3">>

\* tests/unit/test_slack_poster.py line 107: the section title of the test
KeyFindingsMarkdown ==
    <<"K", "e", "y", " ", "F", "i", "n", "d", "i", "n", "g", "s", ":">>

\* A fenced code block with two lines in it
FencedBlock ==
    <<Backtick, Backtick, Backtick, "\n", "#", " ", "a", "\n", "*", "*", "b", "*", "*",
      "\n", Backtick, Backtick, Backtick>>

\* A title of one character between two lines
ShortLines ==
    <<"a", "\n", ":", "\n", "b">>

\* Texts of more lines than MaxLines that the transducer is also run on
LongerSummaries == {HeadersMarkdown, KeyFindingsMarkdown, FencedBlock, ShortLines}

\* The summaries: every text of up to MaxLines template lines, the two long
\* lines on their own, and the longer texts
Summaries ==
    {JoinLines(ls) : ls \in SeqsUpTo(LineTemplates, MaxLines)}
        \cup {LongLine, LongTitleLine} \cup LongerSummaries

\* A paper dictionary: the keys it has and their values
MkPaper(keys, title, summary, upvotes) ==
    [ keys |-> keys, title |-> title, summary |-> summary, upvotes |-> upvotes,
      arxiv_id |-> Id1, pdf_url |-> ArxivPdfUrl(Id1), date |-> Strftime(61) ]

AllKeys == {"title", "summary", "arxiv_id", "pdf_url", "date", "upvotes"}

EmptyPaper == MkPaper({}, <<>>, <<>>, 0)

\* The papers handed to _format_paper_blocks: every summary under one title,
\* and papers without a summary, without a title, with an over-long title and
\* with upvotes on both sides of the emoji threshold.
PaperInputs ==
    {MkPaper(AllKeys, <<"t">>, sm, FireThreshold) : sm \in Summaries}
        \cup {MkPaper(AllKeys \ {"summary"}, <<"t">>, <<>>, FireThreshold),
              MkPaper(AllKeys \ {"title"}, <<>>, <<"-", " ", "a", "\n", "b">>,
                      FireThreshold),
              MkPaper(AllKeys, LongTitle, <<"a", " ", "b", " ", "c", "d", "e", "f", "g">>,
                      FireThreshold + 1)}

\* paper.get(key, default)
PaperGet(p, key, default) == IF key \in p.keys THEN p[key] ELSE default

HeaderBlock(t) == [type |-> "header", text |-> t, fields |-> <<>>]

Divider == [type |-> "divider", text |-> <<>>, fields |-> <<>>]

FieldSection(a, b) == [type |-> "section", text |-> <<>>, fields |-> <<a, b>>]

TextSection(t) == [type |-> "section", text |-> t, fields |-> <<>>]

ContextBlock(t) == [type |-> "context", text |-> <<>>, fields |-> <<t>>]

AbsUrl(id) ==
    <<"<", "h", "t", "t", "p", "s", ":", "/", "/", "a", "r", "x", "i", "v", ".", "o",
      "r", "g", "/", "a", "b", "s", "/">> \o id

DateLabel == <<"*", "D", "a", "t", "e", ":", "*", "\n">>

ArxivLabel == <<"*", "a", "r", "X", "i", "v", " ", "I", "D", ":", "*", "\n">>

UpvotesLabel == <<"*", "U", "p", "v", "o", "t", "e", "s", ":", "*", " ">>

PdfLinkText == <<"|", "V", "i", "e", "w", " ", "t", "h", "e", " ", "f", "u", "l", "l",
                 " ", "p", "a", "p", "e", "r", " ", "P", "D", "F", ">", "*">>

SummaryHeader == <<"*", "A", "I", "-", "G", "e", "n", "e", "r", "a", "t", "e", "d", " ",
                   "S", "u", "m", "m", "a", "r", "y", ":", "*">>

UnknownTitle == <<"U", "n", "k", "n", "o", "w", "n", " ", "t", "i", "t", "l", "e">>

\* lines 324-374: the six blocks before the summary
\* The frame without the divider before the summary
FrameOneDivider(p) ==
    << HeaderBlock(TruncateText(PaperGet(p, "title", UnknownTitle), TitleLimit)),
       Divider,
       FieldSection(DateLabel \o p.date,
                    ArxivLabel \o AbsUrl(p.arxiv_id) \o <<"|">> \o p.arxiv_id \o <<">">>),
       FieldSection(UpvotesLabel \o IntStr(p.upvotes) \o <<" ">>
                        \o (IF p.upvotes > FireThreshold THEN Fire ELSE <<>>),
                    <<"*", "<">> \o p.pdf_url \o PdfLinkText),
       TextSection(SummaryHeader) >>

Frame(p) ==
    << HeaderBlock(TruncateText(PaperGet(p, "title", UnknownTitle), TitleLimit)),
       Divider,
       FieldSection(DateLabel \o p.date,
                    ArxivLabel \o AbsUrl(p.arxiv_id) \o <<"|">> \o p.arxiv_id \o <<">">>),
       FieldSection(UpvotesLabel \o IntStr(p.upvotes) \o <<" ">>
                        \o (IF p.upvotes > FireThreshold THEN Fire ELSE <<>>),
                    <<"*", "<">> \o p.pdf_url \o PdfLinkText),
       Divider,
       TextSection(SummaryHeader) >>

FooterLink == <<"|", "V", "i", "e", "w", " ", "o", "n", " ", "a", "r", "X", "i", "v",
                ">", " ">>

FooterText == <<" ", "G", "e", "n", "e", "r", "a", "t", "e", "d", " ", "b", "y", " ",
                "A", "I", " ", "P", "a", "p", "e", "r", " ", "A", "g", "e", "n", "t">>

\* lines 421-429: the context block that closes the layout
Footer(p) ==
    ContextBlock(AbsUrl(p.arxiv_id) \o FooterLink \o Bullet \o FooterText)

\* "No summary available."
NoSummary == <<"N", "o", " ", "s", "u", "m", "m", "a", "r", "y", " ", "a", "v", "a",
               "i", "l", "a", "b", "l", "e", ".">>

\* paper.get("summary", "No summary available.")
SummaryOf(p) == PaperGet(p, "summary", NoSummary)

\* Mutant of InListAtStart: the transducer starts inside a list.
InListAtStartSet == TRUE

\* line 139: in_list = False
InListAtStart == FALSE

FmtIdle ==
    /\ fpc = "idle"
    /\ paper = EmptyPaper
    /\ blocks = <<>>
    /\ lines = <<>>
    /\ i = 0
    /\ formatted_lines = <<>>
    /\ in_list = FALSE
    /\ list_indent = 0
    /\ prev_was_empty = FALSE
    /\ formatted_summary = <<>>
    /\ start = 0

FmtInit ==
    /\ fpc = "frame"
    /\ paper \in PaperInputs
    /\ blocks = <<>>
    /\ lines = <<>>
    /\ i = 0
    /\ formatted_lines = <<>>
    /\ in_list = FALSE
    /\ list_indent = 0
    /\ prev_was_empty = FALSE
    /\ formatted_summary = <<>>
    /\ start = 0

\* _format_paper_blocks lines 324-380 and _format_markdown_for_slack lines
\* 132-143: the frame is built, single line breaks are doubled, the text is
\* split into lines and the loop state is set up.
FormatPaperBlocks ==
    /\ fpc = "frame"
    /\ blocks' = Frame(paper)
    /\ lines' = Split(EnsureLineBreaks(SummaryOf(paper), 1), "\n")
    /\ formatted_lines' = <<>>
    /\ in_list' = InListAtStart
    /\ list_indent' = 0
    /\ prev_was_empty' = FALSE
    /\ i' = 0
    /\ fpc' = "loop"
    /\ UNCHANGED <<paper, formatted_summary, start>>
    /\ UNCHANGED <<rvars, avars, tvars, ivars, pvars, ovars>>

\* lines[i]
Cur == lines[i + 1]

\* The transducer if it never put an empty line after a title itself
GapAfterNever == <<>>

\* lines 165-166, 179-180: an empty line follows the emitted title when the
\* next input line is not blank
GapAfter ==
    IF i + 2 <= Len(lines) /\ Strip(lines[i + 2]) # <<>> THEN << <<>> >> ELSE <<>>

\* A loop iteration is at a line of the given kind
AtLine(kind) == fpc = "loop" /\ i < Len(lines) /\ LineKind(Cur) = kind

\* lines 148-153
BlankLine ==
    /\ AtLine("blank")
    /\ formatted_lines' = IF ~prev_was_empty THEN Append(formatted_lines, <<>>)
                          ELSE formatted_lines
    /\ prev_was_empty' = TRUE
    /\ i' = i + 1
    /\ UNCHANGED <<fpc, paper, blocks, lines, in_list, list_indent, formatted_summary, start>>
    /\ UNCHANGED <<rvars, avars, tvars, ivars, pvars, ovars>>

\* The section-title branch if it took the trailing colon off, as the
\* heading branches do
SectionTitleColonStripped ==
    /\ AtLine("title")
    /\ formatted_lines' =
          Append(formatted_lines, <<"*">> \o HeadingText(Cur, 0) \o <<"*">>) \o GapAfter
    /\ prev_was_empty' = FALSE
    /\ i' = i + 1
    /\ UNCHANGED <<fpc, paper, blocks, lines, in_list, list_indent, formatted_summary, start>>
    /\ UNCHANGED <<rvars, avars, tvars, ivars, pvars, ovars>>

\* lines 158-168
SectionTitle ==
    /\ AtLine("title")
    /\ formatted_lines' =
          Append(formatted_lines, <<"*">> \o Strip(Cur) \o <<"*">>) \o GapAfter
    /\ prev_was_empty' = FALSE
    /\ i' = i + 1
    /\ UNCHANGED <<fpc, paper, blocks, lines, in_list, list_indent, formatted_summary, start>>
    /\ UNCHANGED <<rvars, avars, tvars, ivars, pvars, ovars>>

\* lines 171-180
HeaderH1 ==
    /\ AtLine("h1")
    /\ formatted_lines' =
          Append(formatted_lines, <<"*">> \o HeadingText(Cur, 2) \o <<"*">>) \o GapAfter
    /\ prev_was_empty' = FALSE
    /\ i' = i + 1
    /\ UNCHANGED <<fpc, paper, blocks, lines, in_list, list_indent, formatted_summary, start>>
    /\ UNCHANGED <<rvars, avars, tvars, ivars, pvars, ovars>>

\* lines 181-190
HeaderH2 ==
    /\ AtLine("h2")
    /\ formatted_lines' =
          Append(formatted_lines, <<"*">> \o HeadingText(Cur, 3) \o <<"*">>) \o GapAfter
    /\ prev_was_empty' = FALSE
    /\ i' = i + 1
    /\ UNCHANGED <<fpc, paper, blocks, lines, in_list, list_indent, formatted_summary, start>>
    /\ UNCHANGED <<rvars, avars, tvars, ivars, pvars, ovars>>

\* lines 191-200
HeaderH3 ==
    /\ AtLine("h3")
    /\ formatted_lines' =
          Append(formatted_lines,
                 Bullet \o <<" ", "*">> \o HeadingText(Cur, 4) \o <<"*">>) \o GapAfter
    /\ prev_was_empty' = FALSE
    /\ i' = i + 1
    /\ UNCHANGED <<fpc, paper, blocks, lines, in_list, list_indent, formatted_summary, start>>
    /\ UNCHANGED <<rvars, avars, tvars, ivars, pvars, ovars>>

\* lines 202-229
BulletItem ==
    /\ AtLine("bullet")
    /\ LET indent  == LeadingSpaces(Cur)
           content == ItemContent(Cur, indent + 2)
       IN  /\ formatted_lines' =
                 Append(formatted_lines,
                        BulletPrefix(indent, list_indent) \o <<" ">> \o content)
           /\ list_indent' = indent
    /\ in_list' = TRUE
    /\ prev_was_empty' = FALSE
    /\ i' = i + 1
    /\ UNCHANGED <<fpc, paper, blocks, lines, formatted_summary, start>>
    /\ UNCHANGED <<rvars, avars, tvars, ivars, pvars, ovars>>

\* lines 235-258
NumberedItem ==
    /\ AtLine("numbered")
    /\ LET indent  == LeadingSpaces(Cur)
           de      == DigitsEnd(Cur, indent + 1)
           num     == SubSeq(Cur, indent + 1, de - 1)
           content == ItemContent(Cur, de + 1)
       IN  formatted_lines' =
              Append(formatted_lines, Spaces(indent) \o num \o <<".", " ">> \o content)
    /\ in_list' = TRUE
    /\ prev_was_empty' = FALSE
    /\ i' = i + 1
    /\ UNCHANGED <<fpc, paper, blocks, lines, list_indent, formatted_summary, start>>
    /\ UNCHANGED <<rvars, avars, tvars, ivars, pvars, ovars>>

\* lines 260-262
CodeFence ==
    /\ AtLine("fence")
    /\ formatted_lines' = Append(formatted_lines, Cur)
    /\ prev_was_empty' = FALSE
    /\ i' = i + 1
    /\ UNCHANGED <<fpc, paper, blocks, lines, in_list, list_indent, formatted_summary, start>>
    /\ UNCHANGED <<rvars, avars, tvars, ivars, pvars, ovars>>

\* lines 263-265
InlineCode ==
    /\ AtLine("inline_code")
    /\ formatted_lines' = Append(formatted_lines, Cur)
    /\ prev_was_empty' = FALSE
    /\ i' = i + 1
    /\ UNCHANGED <<fpc, paper, blocks, lines, in_list, list_indent, formatted_summary, start>>
    /\ UNCHANGED <<rvars, avars, tvars, ivars, pvars, ovars>>

\* The last branch if it never closed a list
OtherLineKeepsList ==
    /\ AtLine("other")
    /\ formatted_lines' =
          Append(formatted_lines, ProcessInlineFormatting(SubColonBold(Cur)))
    /\ prev_was_empty' = FALSE
    /\ i' = i + 1
    /\ UNCHANGED <<fpc, paper, blocks, lines, in_list, list_indent, formatted_summary, start>>
    /\ UNCHANGED <<rvars, avars, tvars, ivars, pvars, ovars>>

\* lines 267-281.  formatted_lines[-1] on an empty list raises IndexError,
\* which leaves both functions: fpc becomes "error".
OtherLine ==
    /\ AtLine("other")
    /\ LET new    == ProcessInlineFormatting(SubColonBold(Cur))
           closes == /\ in_list
                     /\ ~(IsBulletItem(new) \/ IsNumberedItem(new))
                     /\ Strip(new) # <<>>
       IN  IF closes /\ formatted_lines = <<>>
           THEN /\ fpc' = "error"
                /\ in_list' = FALSE
                /\ UNCHANGED <<formatted_lines, prev_was_empty, i>>
           ELSE /\ in_list' = (IF closes THEN FALSE ELSE in_list)
                /\ formatted_lines' =
                      IF closes /\ formatted_lines[Len(formatted_lines)] # <<>>
                      THEN formatted_lines \o << <<>>, new >>
                      ELSE Append(formatted_lines, new)
                /\ prev_was_empty' = FALSE
                /\ i' = i + 1
                /\ UNCHANGED fpc
    /\ UNCHANGED <<paper, blocks, lines, list_indent, formatted_summary, start>>
    /\ UNCHANGED <<rvars, avars, tvars, ivars, pvars, ovars>>

\* lines 286-291 and 383-384: the emitted lines are joined and runs of three
\* or more line breaks are cut to two; inside _format_paper_blocks the chunk
\* loop then starts at 0, a call of the transducer on its own has returned.
JoinResult ==
    /\ fpc = "loop"
    /\ i >= Len(lines)
    /\ formatted_summary' = CollapseNewlines(JoinLines(formatted_lines), 1)
    /\ start' = 0
    /\ fpc' = (IF pass = 0 THEN "chunk" ELSE "returned")
    /\ UNCHANGED <<paper, blocks, lines, i, formatted_lines, in_list, list_indent,
                   prev_was_empty>>
    /\ UNCHANGED <<rvars, avars, tvars, ivars, pvars, ovars>>

\* The chunk loop without its boundary search: the rest of the text at once
ChunkEndWholeRest(fs, st) == Max({Len(fs), st + max_chars})

\* The boundary search if it looked for a space first
ChunkEndSpaceFirst(fs, st) ==
    LET end0 == st + max_chars
        pb   == RFind(fs, <<"\n", "\n">>, st, end0)
        nl   == RFind(fs, <<"\n">>, st, end0)
        sp   == RFind(fs, <<" ">>, st, end0)
    IN  IF end0 < Len(fs)
        THEN IF sp > st THEN sp + 1
             ELSE IF nl > st THEN nl + 1
             ELSE IF pb > st THEN pb + 2
             ELSE end0
        ELSE end0

\* lines 388-404: where the chunk that starts at st ends
ChunkEnd(fs, st) ==
    LET end0 == st + max_chars
        pb   == RFind(fs, <<"\n", "\n">>, st, end0)
        nl   == RFind(fs, <<"\n">>, st, end0)
        sp   == RFind(fs, <<" ">>, st, end0)
    IN  IF end0 < Len(fs)
        THEN IF pb > st THEN pb + 2
             ELSE IF nl > st THEN nl + 1
             ELSE IF sp > st THEN sp + 1
             ELSE end0
        ELSE end0

\* The chunk loop if an iteration could leave the cursor where it is
ChunkStepStuck ==
    /\ fpc = "chunk"
    /\ start < Len(formatted_summary)
    /\ UNCHANGED <<fvars, rvars, avars, tvars, ivars, pvars, ovars>>

\* The chunk loop if it stripped each chunk before posting it
ChunkStepStripped ==
    /\ fpc = "chunk"
    /\ start < Len(formatted_summary)
    /\ LET end   == ChunkEnd(formatted_summary, start)
           chunk == Strip(PySlice(formatted_summary, start, end))
       IN  /\ blocks' = Append(blocks, TextSection(TruncateText(chunk, BlockTextLimit)))
           /\ start' = end
    /\ UNCHANGED <<fpc, paper, lines, i, formatted_lines, in_list, list_indent,
                   prev_was_empty, formatted_summary>>
    /\ UNCHANGED <<rvars, avars, tvars, ivars, pvars, ovars>>

\* lines 386-418: one iteration of the chunk loop
ChunkStep ==
    /\ fpc = "chunk"
    /\ start < Len(formatted_summary)
    /\ LET end   == ChunkEnd(formatted_summary, start)
           chunk == PySlice(formatted_summary, start, end)
       IN  /\ blocks' = Append(blocks, TextSection(TruncateText(chunk, BlockTextLimit)))
           /\ start' = end
    /\ UNCHANGED <<fpc, paper, lines, i, formatted_lines, in_list, list_indent,
                   prev_was_empty, formatted_summary>>
    /\ UNCHANGED <<rvars, avars, tvars, ivars, pvars, ovars>>

\* lines 421-431: the loop is over, the footer is added, the blocks returned
AddFooter ==
    /\ fpc = "chunk"
    /\ start >= Len(formatted_summary)
    /\ blocks' = Append(blocks, Footer(paper))
    /\ fpc' = "done"
    /\ UNCHANGED <<paper, lines, i, formatted_lines, in_list, list_indent,
                   prev_was_empty, formatted_summary, start>>
    /\ UNCHANGED <<rvars, avars, tvars, ivars, pvars, ovars>>

NextFmt ==
    \/ FormatPaperBlocks
    \/ BlankLine
    \/ SectionTitle
    \/ HeaderH1
    \/ HeaderH2
    \/ HeaderH3
    \/ BulletItem
    \/ NumberedItem
    \/ CodeFence
    \/ InlineCode
    \/ OtherLine
    \/ JoinResult
    \/ ChunkStep
    \/ AddFooter

(***************************************************************************)
(* _format_markdown_for_slack called on its own, and then once more on     *)
(* what it returned.                                                       *)
(***************************************************************************)

\* '***a***': bold and italic at once
TripleMarked == <<"*", "*", "*", "a", "*", "*", "*">>

\* A bullet item that ends in a colon
BulletWithColon == <<"-", " ", "a", ":">>

TwiceInputs == Summaries \cup {TripleMarked, BulletWithColon}

TwiceInit ==
    /\ fpc = "call"
    /\ md_text \in TwiceInputs
    /\ pass = 1
    /\ first_out = <<>>
    /\ paper = EmptyPaper
    /\ blocks = <<>>
    /\ lines = <<>>
    /\ i = 0
    /\ formatted_lines = <<>>
    /\ in_list = FALSE
    /\ list_indent = 0
    /\ prev_was_empty = FALSE
    /\ formatted_summary = <<>>
    /\ start = 0

\* lines 132-143: single line breaks are doubled, the text is split into
\* lines and the loop state is set up
FormatMarkdownForSlack ==
    /\ fpc = "call"
    /\ lines' = Split(EnsureLineBreaks(md_text, 1), "\n")
    /\ formatted_lines' = <<>>
    /\ in_list' = InListAtStart
    /\ list_indent' = 0
    /\ prev_was_empty' = FALSE
    /\ i' = 0
    /\ fpc' = "loop"
    /\ UNCHANGED <<paper, blocks, formatted_summary, start>>
    /\ UNCHANGED <<rvars, avars, tvars, ivars, pvars, ovars>>

\* The caller hands what the first call returned to a second call
Reapply ==
    /\ fpc = "returned"
    /\ pass = 1
    /\ first_out' = formatted_summary
    /\ md_text' = formatted_summary
    /\ pass' = 2
    /\ fpc' = "call"
    /\ UNCHANGED <<paper, blocks, lines, i, formatted_lines, in_list, list_indent,
                   prev_was_empty, formatted_summary, start>>
    /\ UNCHANGED <<rvars, avars, tvars, ivars, ovars>>

NextTwice ==
    \/ FormatMarkdownForSlack
    \/ BlankLine
    \/ SectionTitle
    \/ HeaderH1
    \/ HeaderH2
    \/ HeaderH3
    \/ BulletItem
    \/ NumberedItem
    \/ CodeFence
    \/ InlineCode
    \/ OtherLine
    \/ JoinResult
    \/ Reapply

(***************************************************************************)
(* _truncate_text called on its own, on every bounded text and limit.      *)
(***************************************************************************)

MaxTextLen == 5

MaxLimit == 6

TruncAlphabet == {"a", "."}

TruncIdle ==
    /\ tpc = "idle"
    /\ trunc_text = <<>>
    /\ trunc_limit = 0
    /\ trunc_out = <<>>

TruncInit ==
    /\ tpc = "start"
    /\ trunc_text \in SeqsUpTo(TruncAlphabet, MaxTextLen)
    /\ trunc_limit \in 0..MaxLimit
    /\ trunc_out = <<>>

\* lines 117-118: the text fits and is returned as it is
TruncateTextFits ==
    /\ tpc = "start"
    /\ Len(trunc_text) <= trunc_limit
    /\ trunc_out' = TruncateText(trunc_text, trunc_limit)
    /\ tpc' = "done"
    /\ UNCHANGED <<trunc_text, trunc_limit>>
    /\ UNCHANGED <<rvars, avars, fvars, ivars, pvars, ovars>>

\* line 119: the text is cut and the dots are put after it
TruncateTextCuts ==
    /\ tpc = "start"
    /\ Len(trunc_text) > trunc_limit
    /\ trunc_out' = TruncateText(trunc_text, trunc_limit)
    /\ tpc' = "done"
    /\ UNCHANGED <<trunc_text, trunc_limit>>
    /\ UNCHANGED <<rvars, avars, fvars, ivars, pvars, ovars>>

NextTrunc ==
    \/ TruncateTextFits
    \/ TruncateTextCuts

(***************************************************************************)
(* _process_inline_formatting called on its own, on every text made of up  *)
(* to MaxSegments pieces: plain text, '**text**', '**words:**', '__text__'.*)
(***************************************************************************)

MaxSegments == 3

\* Plain text: no asterisk and no underscore in it
PlainBodies == { <<"a">>, <<" ", "b", " ">>, <<"c", ":">> }

\* The text of a marked span
SpanBodies == { <<"K">>, <<"a", " ", "b">> }

Segments ==
    [kind : {"plain"}, body : PlainBodies]
        \cup [kind : {"bold", "colon", "italic"}, body : SpanBodies]

\* A piece as it is written in Markdown
Render(seg) ==
    CASE seg.kind = "plain"  -> seg.body
      [] seg.kind = "bold"   -> <<"*", "*">> \o seg.body \o <<"*", "*">>
      [] seg.kind = "colon"  -> <<"*", "*">> \o seg.body \o <<":", "*", "*">>
      [] seg.kind = "italic" -> <<"_", "_">> \o seg.body \o <<"_", "_">>

RECURSIVE RenderAll(_)
RenderAll(segs) ==
    IF segs = <<>> THEN <<>> ELSE Render(Head(segs)) \o RenderAll(Tail(segs))

InlineInit ==
    /\ ipc = "start"
    /\ inline_segs \in SeqsUpTo(Segments, MaxSegments)
    /\ inline_text = RenderAll(inline_segs)
    /\ inline_out = <<>>

\* lines 303-312
InlineFormatting ==
    /\ ipc = "start"
    /\ inline_out' = ProcessInlineFormatting(inline_text)
    /\ ipc' = "done"
    /\ UNCHANGED <<inline_segs, inline_text>>
    /\ UNCHANGED <<rvars, avars, fvars, tvars, pvars, ovars>>

NextInline == InlineFormatting

InlineIdle ==
    /\ ipc = "idle"
    /\ inline_segs = <<>>
    /\ inline_text = <<>>
    /\ inline_out = <<>>

(***************************************************************************)
(* check_slack_posting of agent_utils: the run items are searched for the  *)
(* post_paper_to_slack call and for the result that belongs to it.         *)
(***************************************************************************)

\* The longest list of run items
MaxItems == 3

PostToolName == <<"post_paper_to_slack">>

ToolCallIds == {<<"call_1">>, <<"call_2">>}

\* f"{tool_call_id}_result"
ResultIdOf(tool_call_id) == tool_call_id \o <<"_result">>

\* A tool result dictionary: the keys it has and their values
MkToolResult(keys, success, error, message_url, ch) ==
    [keys |-> keys, success |-> success, error |-> error,
     message_url |-> message_url, channel |-> ch]

EmptyDict == MkToolResult({}, FALSE, <<>>, <<>>, <<>>)

ToolResults ==
    { MkToolResult({"success", "message_url", "channel"}, TRUE, <<>>,
                   <<"https://slack.com/message/123">>, <<"#ai-papers-and-research">>),
      MkToolResult({"success", "error"}, FALSE, <<"API error">>, <<>>, <<>>),
      MkToolResult({"success"}, FALSE, <<>>, <<>>, <<>>),
      EmptyDict }

\* A run item: a dictionary with a type, an id and, by its type, a tool_use
\* name or a tool_result dictionary, or an object that is no dictionary
MkItem(isdict, type, id, name, has_result, tool_result) ==
    [isdict |-> isdict, type |-> type, id |-> id, name |-> name,
     has_result |-> has_result, tool_result |-> tool_result]

ToolUse(id, name) == MkItem(TRUE, "tool_use", id, name, FALSE, EmptyDict)

ToolResult(id, d) == MkItem(TRUE, "tool_result", id, <<>>, TRUE, d)

RunItems ==
    {ToolUse(id, name) : id \in ToolCallIds, name \in {PostToolName, <<"web_search">>}}
        \cup {ToolResult(ResultIdOf(id), d) : id \in ToolCallIds, d \in ToolResults}
        \cup {MkItem(TRUE, "tool_result", ResultIdOf(<<"call_1">>), <<>>, FALSE, EmptyDict),
              MkItem(FALSE, "message_output", <<>>, <<>>, FALSE, EmptyDict)}

\* d.get(key, default)
DictGet(d, key, default) == IF key \in d.keys THEN d[key] ELSE default

\* The index of the first item of the list with the property, 0 when none has it
FirstIndex(items, Has(_)) ==
    IF \E k \in 1..Len(items) : Has(items[k])
    THEN CHOOSE k \in 1..Len(items) :
           Has(items[k]) /\ \A j \in 1..(k - 1) : ~Has(items[j])
    ELSE 0

IsSlackPostToolCall(item) ==
    item.isdict /\ item.type = "tool_use" /\ item.name = PostToolName

IsResultOf(item, tool_call_id) ==
    item.isdict /\ item.type = "tool_result" /\ item.id = ResultIdOf(tool_call_id)

CheckInit ==
    /\ cpc = "start"
    /\ new_items \in SeqsUpTo(RunItems, MaxItems)
    /\ slack_post_tool_call = <<>>
    /\ slack_post_result = <<>>
    /\ check_ret = NoCheckRet

\* lines 94-103: the first loop stops at the first post_paper_to_slack call
FindToolCall ==
    /\ cpc = "start"
    /\ LET k == FirstIndex(new_items, IsSlackPostToolCall)
       IN  slack_post_tool_call' = (IF k = 0 THEN <<>> ELSE <<new_items[k]>>)
    /\ cpc' = "find_result"
    /\ UNCHANGED <<new_items, slack_post_result, check_ret>>
    /\ UNCHANGED <<rvars, avars, fvars, tvars, ivars, pvars, svars, kvars>>

\* lines 105-111: with a call found, the second loop stops at the first
\* tool_result item whose id is the call's id and '_result'
FindToolResult ==
    /\ cpc = "find_result"
    /\ slack_post_tool_call # <<>>
    /\ LET tool_call_id == slack_post_tool_call[1].id
           IsIts(item)  == IsResultOf(item, tool_call_id)
           k            == FirstIndex(new_items, IsIts)
       IN  slack_post_result' =
             (IF k = 0 THEN <<>>
              ELSE IF new_items[k].has_result THEN <<new_items[k].tool_result>>
              ELSE <<EmptyDict>>)
    /\ cpc' = "decide"
    /\ UNCHANGED <<new_items, slack_post_tool_call, check_ret>>
    /\ UNCHANGED <<rvars, avars, fvars, tvars, ivars, pvars, svars, kvars>>

\* lines 113-117
NoToolCallFound ==
    /\ cpc = "find_result"
    /\ slack_post_tool_call = <<>>
    /\ check_ret' = [NoCheckRet EXCEPT
                       !.kind = "returned",
                       !.keys = {"slack_post_successful", "error"},
                       !.error = <<"No post_paper_to_slack tool call found">>]
    /\ cpc' = "done"
    /\ UNCHANGED <<new_items, slack_post_tool_call, slack_post_result>>
    /\ UNCHANGED <<rvars, avars, fvars, tvars, ivars, pvars, svars, kvars>>

\* `not slack_post_result or not slack_post_result.get("success", False)` of
\* line 119, for a dictionary
PostFailed(d) == d.keys = {} \/ ~DictGet(d, "success", FALSE)

\* lines 119-123 with a dictionary in slack_post_result
ReturnPostFailed ==
    /\ cpc = "decide"
    /\ slack_post_result # <<>>
    /\ PostFailed(slack_post_result[1])
    /\ check_ret' = [NoCheckRet EXCEPT
                       !.kind = "returned",
                       !.keys = {"slack_post_successful", "error"},
                       !.error = DictGet(slack_post_result[1], "error",
                                         <<"Unknown error posting to Slack">>)]
    /\ cpc' = "done"
    /\ UNCHANGED <<new_items, slack_post_tool_call, slack_post_result>>
    /\ UNCHANGED <<rvars, avars, fvars, tvars, ivars, pvars, svars, kvars>>

\* lines 119-123 with None in slack_post_result: `not None` holds and
\* None.get of line 122 raises AttributeError, which nothing catches
RaiseOnNoResult ==
    /\ cpc = "decide"
    /\ slack_post_result = <<>>
    /\ check_ret' = [NoCheckRet EXCEPT !.kind = "raised",
                                       !.error = <<"AttributeError">>]
    /\ cpc' = "done"
    /\ UNCHANGED <<new_items, slack_post_tool_call, slack_post_result>>
    /\ UNCHANGED <<rvars, avars, fvars, tvars, ivars, pvars, svars, kvars>>

\* lines 125-130
ReturnPostSuccessful ==
    /\ cpc = "decide"
    /\ slack_post_result # <<>>
    /\ ~PostFailed(slack_post_result[1])
    /\ check_ret' = [NoCheckRet EXCEPT
                       !.kind = "returned",
                       !.keys = {"slack_post_successful", "message_url", "channel"},
                       !.slack_post_successful = TRUE,
                       !.message_url = DictGet(slack_post_result[1], "message_url", <<>>),
                       !.channel = DictGet(slack_post_result[1], "channel", <<>>)]
    /\ cpc' = "done"
    /\ UNCHANGED <<new_items, slack_post_tool_call, slack_post_result>>
    /\ UNCHANGED <<rvars, avars, fvars, tvars, ivars, pvars, svars, kvars>>

NextCheck ==
    \/ FindToolCall
    \/ FindToolResult
    \/ NoToolCallFound
    \/ ReturnPostFailed
    \/ RaiseOnNoResult
    \/ ReturnPostSuccessful

(***************************************************************************)
(* post_paper_to_slack: the token is read, the layout is built by          *)
(* _format_paper_blocks and the message is handed to chat_postMessage.     *)
(***************************************************************************)

\* slack_poster.py line 19
DEFAULT_CHANNEL == <<"#ai-papers-and-research">>

\* A line of each remaining kind: bullet item, numbered item, code span, text
MixedLines ==
    JoinLines(<< <<"-", " ", "a">>, <<"1", ".", " ", "a">>,
                 <<Backtick, "a", Backtick>>, <<"b">> >>)

\* The summaries post_paper_to_slack is called with
PostSummaries == LongerSummaries \cup {MixedLines}

\* os.environ.get("SLACK_API_TOKEN"): None, the empty string, or a token
TokenValues == {"None", "", "xoxb-1"}

\* What chat_postMessage answers with when it returns
Responses ==
    { [channel |-> <<"C", "1">>, ts |-> <<"1", "7", ".", "0", "2">>],
      [channel |-> <<"C", "2">>, ts |-> <<"3", ".", "4">>] }

\* str(e) of what chat_postMessage raises
ErrorTexts == {<<>>, <<"channel_not_found">>}

\* response['ts'].replace('.', '')
WithoutDots(ts) == SelectSeq(ts, LAMBDA c : c # ".")

\* line 89
MessageUrl(response) ==
    <<"https://slack.com/archives/">> \o response.channel \o <<"/p">>
        \o WithoutDots(response.ts)

\* The keyword arguments of chat_postMessage, and how the call ended
ApiCall(ch, bs, title, outcome) ==
    [channel |-> ch, blocks |-> bs, text |-> <<"New research paper: ">> \o title,
     outcome |-> outcome]

\* The record returned on a failure
PostFailure(error_msg) ==
    [NoPostRet EXCEPT !.kind = "returned", !.keys = {"success", "error"},
                      !.error = error_msg]

\* The channel left as it was given
ChannelAsGiven(ch) == ch

\* lines 51-52
ChannelOrDefault(ch) == IF ch = <<>> THEN DEFAULT_CHANNEL ELSE ch

\* The arguments title, arxiv_id, upvotes, pdf_url and summary are held in
\* paper from the start; line 71 makes the dictionary of them.
PostInit ==
    /\ spc = "start"
    /\ channel \in {<<>>, <<"#", "x">>}
    /\ slack_token \in TokenValues
    /\ api_calls = <<>>
    /\ post_ret = NoPostRet
    /\ fpc = "idle"
    /\ paper \in {MkPaper(AllKeys, <<"t">>, sm, FireThreshold) : sm \in PostSummaries}
    /\ blocks = <<>>
    /\ lines = <<>>
    /\ i = 0
    /\ formatted_lines = <<>>
    /\ in_list = FALSE
    /\ list_indent = 0
    /\ prev_was_empty = FALSE
    /\ formatted_summary = <<>>
    /\ start = 0

\* lines 51-65: no token in the environment, or an empty one
MissingToken ==
    /\ spc = "start"
    /\ slack_token \in {"None", ""}
    /\ channel' = ChannelOrDefault(channel)
    /\ post_ret' = PostFailure(<<"SLACK_API_TOKEN environment variable not set">>)
    /\ spc' = "done"
    /\ UNCHANGED <<slack_token, api_calls>>
    /\ UNCHANGED <<rvars, avars, fvars, tvars, ivars, pvars, cvars, kvars>>

\* lines 51-78 with a token: the client is made and _format_paper_blocks is
\* called on the dictionary of the arguments
BuildLayout ==
    /\ spc = "start"
    /\ slack_token \notin {"None", ""}
    /\ channel' = ChannelOrDefault(channel)
    /\ spc' = "layout"
    /\ fpc' = "frame"
    /\ UNCHANGED <<slack_token, api_calls, post_ret>>
    /\ UNCHANGED <<paper, blocks, lines, i, formatted_lines, in_list, list_indent,
                   prev_was_empty, formatted_summary, start>>
    /\ UNCHANGED <<rvars, avars, tvars, ivars, pvars, cvars, kvars>>

\* lines 80-97: chat_postMessage returns
MessagePosted ==
    /\ spc = "layout"
    /\ fpc = "done"
    /\ \E response \in Responses :
         /\ api_calls' = Append(api_calls, ApiCall(channel, blocks, paper.title, "returned"))
         /\ post_ret' = [NoPostRet EXCEPT
                           !.kind = "returned",
                           !.keys = {"success", "channel", "message_ts", "message_url"},
                           !.success = TRUE,
                           !.channel = channel,
                           !.message_ts = response.ts,
                           !.message_url = MessageUrl(response)]
    /\ spc' = "done"
    /\ UNCHANGED <<channel, slack_token>>
    /\ UNCHANGED <<rvars, avars, fvars, tvars, ivars, pvars, cvars, kvars>>

\* lines 80-84 and 99-105: chat_postMessage raises SlackApiError
SlackApiErrorCaught ==
    /\ spc = "layout"
    /\ fpc = "done"
    /\ \E e \in ErrorTexts :
         /\ api_calls' = Append(api_calls,
                                ApiCall(channel, blocks, paper.title, "SlackApiError"))
         /\ post_ret' = PostFailure(<<"Error posting to Slack: ">> \o e)
    /\ spc' = "done"
    /\ UNCHANGED <<channel, slack_token>>
    /\ UNCHANGED <<rvars, avars, fvars, tvars, ivars, pvars, cvars, kvars>>

\* lines 80-84 and 106-112: chat_postMessage raises another exception
ExceptionCaught ==
    /\ spc = "layout"
    /\ fpc = "done"
    /\ \E e \in ErrorTexts :
         /\ api_calls' = Append(api_calls,
                                ApiCall(channel, blocks, paper.title, "Exception"))
         /\ post_ret' = PostFailure(<<"Unexpected error: ">> \o e)
    /\ spc' = "done"
    /\ UNCHANGED <<channel, slack_token>>
    /\ UNCHANGED <<rvars, avars, fvars, tvars, ivars, pvars, cvars, kvars>>

NextPost ==
    \/ MissingToken
    \/ BuildLayout
    \/ NextFmt
    \/ MessagePosted
    \/ SlackApiErrorCaught
    \/ ExceptionCaught

(***************************************************************************)
(* Two calls of _format_paper_blocks.  Every name the function and         *)
(* _format_markdown_for_slack assign is a local of the call, so a call has *)
(* a frame of its own.  The running call's frame is in the variables of    *)
(* the formatter; the frame of the other call is parked.  The calls run    *)
(* one after the other first, then again with their steps interleaved.     *)
(***************************************************************************)

\* The frame of the running call
ThisFrame ==
    [fpc |-> fpc, paper |-> paper, blocks |-> blocks, lines |-> lines, i |-> i,
     formatted_lines |-> formatted_lines, in_list |-> in_list,
     list_indent |-> list_indent, prev_was_empty |-> prev_was_empty,
     formatted_summary |-> formatted_summary, start |-> start]

\* The frame of a call that is about to start on paper p
NewFrame(p) ==
    [fpc |-> "frame", paper |-> p, blocks |-> <<>>, lines |-> <<>>, i |-> 0,
     formatted_lines |-> <<>>, in_list |-> FALSE, list_indent |-> 0,
     prev_was_empty |-> FALSE, formatted_summary |-> <<>>, start |-> 0]

\* The call of frame f becomes the running one
Resume(f) ==
    /\ fpc' = f.fpc
    /\ paper' = f.paper
    /\ blocks' = f.blocks
    /\ lines' = f.lines
    /\ i' = f.i
    /\ formatted_lines' = f.formatted_lines
    /\ in_list' = f.in_list
    /\ list_indent' = f.list_indent
    /\ prev_was_empty' = f.prev_was_empty
    /\ formatted_summary' = f.formatted_summary
    /\ start' = f.start

PairPapers == {MkPaper(AllKeys, <<"t">>, sm, FireThreshold) : sm \in PostSummaries}

\* Two calls with different inputs
PairInputs == {pq \in PairPapers \X PairPapers : pq[1] # pq[2]}

PairInit ==
    /\ phase = "alone"
    /\ call = 1
    /\ inputs \in PairInputs
    /\ alone = <<>>
    /\ parked = <<>>
    /\ fpc = "frame"
    /\ paper = inputs[1]
    /\ blocks = <<>>
    /\ lines = <<>>
    /\ i = 0
    /\ formatted_lines = <<>>
    /\ in_list = FALSE
    /\ list_indent = 0
    /\ prev_was_empty = FALSE
    /\ formatted_summary = <<>>
    /\ start = 0

\* The first call has returned; the second is made
SecondAlone ==
    /\ phase = "alone"
    /\ call = 1
    /\ fpc = "done"
    /\ alone' = Append(alone, blocks)
    /\ call' = 2
    /\ Resume(NewFrame(inputs[2]))
    /\ UNCHANGED <<phase, inputs, parked>>
    /\ UNCHANGED <<rvars, avars, tvars, ivars, pvars, cvars, svars>>

\* The second call has returned; both calls are made once more, together
StartTogether ==
    /\ phase = "alone"
    /\ call = 2
    /\ fpc = "done"
    /\ alone' = Append(alone, blocks)
    /\ phase' = "together"
    /\ call' = 1
    /\ Resume(NewFrame(inputs[1]))
    /\ parked' = <<NewFrame(inputs[2])>>
    /\ UNCHANGED inputs
    /\ UNCHANGED <<rvars, avars, tvars, ivars, pvars, cvars, svars>>

\* The buffer of emitted lines held in one place for both calls
SwitchSharedBuffer ==
    /\ phase = "together"
    /\ parked # <<>>
    /\ parked' = <<ThisFrame>>
    /\ Resume([parked[1] EXCEPT !.formatted_lines = formatted_lines])
    /\ call' = 3 - call
    /\ UNCHANGED <<phase, inputs, alone>>
    /\ UNCHANGED <<rvars, avars, tvars, ivars, pvars, cvars, svars>>

\* The running call is suspended between two steps and the other call goes
\* on from where it stood: lines, formatted_lines, in_list, list_indent,
\* prev_was_empty, i (lines 134-145) and blocks, formatted_summary, start
\* (lines 324-386) belong to the call
Switch ==
    /\ phase = "together"
    /\ parked # <<>>
    /\ parked' = <<ThisFrame>>
    /\ Resume(parked[1])
    /\ call' = 3 - call
    /\ UNCHANGED <<phase, inputs, alone>>
    /\ UNCHANGED <<rvars, avars, tvars, ivars, pvars, cvars, svars>>

NextPair ==
    \/ NextFmt
    \/ SecondAlone
    \/ StartTogether
    \/ Switch

TwiceIdle ==
    /\ md_text = <<>>
    /\ pass = 0
    /\ first_out = <<>>

vars == <<rvars, avars, fvars, tvars, ivars, pvars, ovars>>

OthersIdle == CheckIdle /\ PostIdle /\ PairIdle

RestIdle == TruncIdle /\ InlineIdle /\ TwiceIdle /\ OthersIdle

Init == ResolverInit /\ AuthorsIdle /\ FmtIdle /\ RestIdle

\* The resolver: get_top_paper_pdf_url and _get_top_paper_by_date
Spec == Init /\ [][Next]_vars

InitAuthors == ResolverInit /\ AuthorsInit /\ FmtIdle /\ RestIdle

\* The authors coercion applied to every bounded authors value
SpecAuthors == InitAuthors /\ [][NextAuthors]_vars

InitFmt == ResolverInit /\ AuthorsIdle /\ FmtInit /\ RestIdle

\* _format_paper_blocks with _format_markdown_for_slack on every bounded paper
SpecFmt == InitFmt /\ [][NextFmt]_vars

\* The same with the chunk loop running on: an iteration or the exit that
\* can be taken is taken in the end, nothing outside the function holds it up
SpecFmtFair ==
    InitFmt /\ [][NextFmt]_vars /\ WF_vars(ChunkStep) /\ WF_vars(AddFooter)

InitTrunc ==
    ResolverInit /\ AuthorsIdle /\ FmtIdle /\ TruncInit /\ InlineIdle /\ TwiceIdle
        /\ OthersIdle

\* _truncate_text on every bounded text and limit
SpecTrunc == InitTrunc /\ [][NextTrunc]_vars

InitTwice ==
    ResolverInit /\ AuthorsIdle /\ TwiceInit /\ TruncIdle /\ InlineIdle /\ OthersIdle

\* _format_markdown_for_slack applied to every bounded text and then to its
\* own output
SpecTwice == InitTwice /\ [][NextTwice]_vars

InitInline ==
    ResolverInit /\ AuthorsIdle /\ FmtIdle /\ TruncIdle /\ InlineInit /\ TwiceIdle
        /\ OthersIdle

\* _process_inline_formatting on every text of up to MaxSegments pieces
SpecInline == InitInline /\ [][NextInline]_vars

InitCheck ==
    ResolverInit /\ AuthorsIdle /\ FmtIdle /\ TruncIdle /\ InlineIdle /\ TwiceIdle
        /\ CheckInit /\ PostIdle /\ PairIdle

\* check_slack_posting on every list of up to MaxItems run items
SpecCheck == InitCheck /\ [][NextCheck]_vars

InitPost ==
    ResolverInit /\ AuthorsIdle /\ TruncIdle /\ InlineIdle /\ TwiceIdle
        /\ PostInit /\ CheckIdle /\ PairIdle

\* post_paper_to_slack with every token value, channel and outcome of the
\* chat_postMessage call
SpecPost == InitPost /\ [][NextPost]_vars

InitPair ==
    ResolverInit /\ AuthorsIdle /\ TruncIdle /\ InlineIdle /\ TwiceIdle
        /\ PairInit /\ CheckIdle /\ PostIdle

\* Two calls of _format_paper_blocks, alone and then interleaved step by step
SpecPair == InitPair /\ [][NextPair]_vars

(***************************************************************************)
(* Properties of the resolver (specification Spec).                        *)
(***************************************************************************)

IsPrimaryLoad(l) == l.name \in {"daily-papers", "daily-papers-stats"}

IsLegacyLoad(l) == l.name = "hf_daily_papers"

\* The last dataset load made was the legacy one and it failed (so a primary
\* load had failed before it).
BothLoadsFailed ==
    /\ loads # <<>>
    /\ IsLegacyLoad(loads[Len(loads)])
    /\ ~loads[Len(loads)].ok

\* C1: when the primary load fails and the legacy load fails too, the call
\* ends with the "Failed to load datasets" error and no check date was ever
\* computed, in either loop.
C1_BothFailNoSearch ==
    BothLoadsFailed =>
        /\ pc = "raised"
        /\ err.kind = "FailedToLoad"
        /\ err.inner = "LoadError"
        /\ examined = <<>>
        /\ \E k \in 1..(Len(loads) - 1) : IsPrimaryLoad(loads[k]) /\ ~loads[k].ok

C1_Witness == BothLoadsFailed /\ pc = "raised" /\ Len(loads) = 3

\* C2: loads happen one after the other; the legacy function is called at most
\* once, only right after a failed primary load, with the caller's target_date
\* and max_days_to_look_back; no primary load follows a failed one; the legacy
\* result is returned unchanged; with both primary loads successful the legacy
\* source is not touched.
C2_SequentialFallback ==
    /\ Len(legacy_calls) <= 1
    /\ \A n \in 1..Len(loads) :
         /\ IsLegacyLoad(loads[n]) =>
              n = Len(loads) /\ n > 1 /\ IsPrimaryLoad(loads[n - 1]) /\ ~loads[n - 1].ok
         /\ (IsPrimaryLoad(loads[n]) /\ ~loads[n].ok) =>
              \A j \in (n + 1)..Len(loads) : ~IsPrimaryLoad(loads[j])
    /\ legacy_calls # <<>> =>
         /\ legacy_calls[1] = <<target_date, max_days_to_look_back>>
         /\ \E n \in 1..Len(loads) : IsPrimaryLoad(loads[n]) /\ ~loads[n].ok
    /\ (entry = "get_top_paper_pdf_url" /\ legacy_calls # <<>>) =>
         legacy_calls[1][2] = DefaultMaxDays
    /\ (\E n \in 1..Len(loads) : IsLegacyLoad(loads[n])) => Len(legacy_calls) = 1
    /\ (path = "legacy" /\ pc \in {"returned", "done"}) => top_paper = legacy_ret
    /\ (Len(loads) = 2 /\ loads[1].ok /\ loads[2].ok) =>
         legacy_calls = <<>> /\ path = "primary"

C2_Witness ==
    /\ pc = "returned"
    /\ path = "legacy"
    /\ entry = "_get_top_paper_by_date"
    /\ legacy_calls = <<<<target_date, 0>>>>
    /\ Len(loads) = 3

\* The date loop of the loaded table ran through the whole window without a
\* matching row.
SearchExhausted == pc = "raised" /\ path \in {"primary", "legacy"}

\* C3: after a successful load (primary, or legacy after a primary failure)
\* with no row matching any date of the window, the call fails with the
\* "No papers found" error naming max_days_to_look_back and target_date, not
\* with the error of an unavailable data source.
C3_NotFoundIsDistinct ==
    SearchExhausted =>
        /\ err.kind = "NoPapersFound"
        /\ err.days = LoopLookBack
        /\ err.target = LoopTargetDate

\* A row was selected (by either loop).
Found == pc \in {"legacy_returned", "returned", "done"}

\* The selected row
Selected == IF pc = "legacy_returned" THEN legacy_ret.row ELSE top_paper.row

\* Row r matches day x through a field the table has.
MatchesDay(r, x) ==
    \/ "date" \in df.cols /\ r.dday = x
    \/ "created" \in df.cols /\ r.cday = x

FirstMatchingOffset ==
    LET D == Strptime(LoopTargetDate)
    IN  CHOOSE k \in 0..LoopLookBack :
          /\ \E r \in df.rows : MatchesDay(r, D - k)
          /\ \A j \in 0..(k - 1) : ~\E r \in df.rows : MatchesDay(r, D - j)

\* C5: the search stops at the nearest date that has a matching row and returns
\* a row of that date; no date further back is examined.
C5_NearestDateWins ==
    Found =>
        LET D == Strptime(LoopTargetDate)
        IN  /\ \E k \in 0..LoopLookBack : \E r \in df.rows : MatchesDay(r, D - k)
            /\ Len(examined) = FirstMatchingOffset + 1
            /\ MatchesDay(Selected, D - FirstMatchingOffset)

\* A row of strictly higher score sits on an earlier date of the window.
C5_Witness ==
    /\ Found
    /\ ScoreColumn(df.cols) # "none"
    /\ \E q \in df.rows :
         /\ q[ScoreColumn(df.cols)] > Selected[ScoreColumn(df.cols)]
         /\ \E k \in (FirstMatchingOffset + 1)..LoopLookBack :
              MatchesDay(q, Strptime(LoopTargetDate) - k)
         /\ ~MatchesDay(q, Strptime(LoopTargetDate) - FirstMatchingOffset)

\* The rows the filter keeps for day x, told by the days the rows were
\* written from.
RowsOfDay(x) ==
    IF "date" \in df.cols /\ \E r \in df.rows : r.dday = x
    THEN {r \in df.rows : r.dday = x}
    ELSE IF "created" \in df.cols THEN {r \in df.rows : r.cday = x} ELSE {}

\* C6: where the table has a ranking column, no row matching the resolved date
\* has a higher ranking key than the returned row.
C6_TopOfResolvedDate ==
    (Found /\ ScoreColumn(df.cols) # "none") =>
        LET x == Strptime(LoopTargetDate) - (Len(examined) - 1)
        IN  /\ Selected.dday \in {r.dday : r \in RowsOfDay(x)}
            /\ \A q \in RowsOfDay(x) :
                 q[ScoreColumn(df.cols)] <= Selected[ScoreColumn(df.cols)]

C6_Witness ==
    /\ Found
    /\ ScoreColumn(df.cols) # "none"
    /\ \E q \in RowsOfDay(Strptime(LoopTargetDate) - (Len(examined) - 1)) :
         q[ScoreColumn(df.cols)] < Selected[ScoreColumn(df.cols)]

\* s has the shape DDDD-DD-DD
IsYMDForm(s) ==
    /\ Len(s) = 10
    /\ \A k \in {1, 2, 3, 4, 6, 7, 9, 10} : IsDigit(s[k])
    /\ s[5] = "-"
    /\ s[8] = "-"

\* C7 as stated: every date argument that is not of the form YYYY-MM-DD makes
\* get_top_paper_pdf_url fail with the invalid-date error, with no load made.
C7_AsStated ==
    (entry = "get_top_paper_pdf_url" /\ ~IsYMDForm(date)) =>
        /\ pc = "raised"
        /\ err.kind = "InvalidDate"
        /\ loads = <<>>

\* C7, amended: a non-empty date argument that strptime rejects under
\* "%Y-%m-%d" makes get_top_paper_pdf_url fail with the invalid-date error
\* before any load; the invalid-date error is raised with no load made and
\* no legacy call; an empty date is replaced by today's date and not rejected.
C7_RejectedBeforeLoad ==
    /\ (entry = "get_top_paper_pdf_url" /\ date # <<>> /\ Strptime(date) = 0) =>
         /\ pc = "raised"
         /\ err = InvalidDateErr(date)
         /\ loads = <<>>
         /\ legacy_calls = <<>>
    /\ err.kind = "InvalidDate" => loads = <<>> /\ legacy_calls = <<>> /\ pc = "raised"
    /\ (entry = "get_top_paper_pdf_url" /\ date = <<>>) =>
         /\ err.kind # "InvalidDate"
         /\ \E t \in TodayDays : target_date = Strftime(t)

C7_Witness ==
    /\ entry = "get_top_paper_pdf_url"
    /\ ~IsYMDForm(date)
    /\ date # <<>>
    /\ pc = "raised"
    /\ err.kind = "InvalidDate"

\* s ends in "v" followed by one or more digits; VersionSuffix is that ending.
HasVersionSuffix(s) ==
    \E k \in 1..(Len(s) - 1) : s[k] = "v" /\ \A j \in (k + 1)..Len(s) : IsDigit(s[j])

VersionSuffix(s) ==
    LET k == CHOOSE k \in 1..(Len(s) - 1) :
                 /\ s[k] = "v"
                 /\ \A j \in (k + 1)..Len(s) : IsDigit(s[j])
    IN  SubSeq(s, k, Len(s))

\* sub occurs in s
HasSubstring(s, sub) ==
    \E k \in 0..(Len(s) - Len(sub)) : SubSeq(s, k + 1, k + Len(sub)) = sub

\* C8: when the selected row's identifier ends in v<digits>, the returned
\* paper_id does not contain that suffix, and pdf_url is the URL pattern
\* filled with the returned paper_id.
C8_VersionStripped ==
    pc = "done" =>
        LET raw == Get(top_paper, "paper_id", Get(top_paper, "arxiv_id", <<>>))
        IN  /\ HasVersionSuffix(raw) =>
                 /\ ~HasSubstring(out.paper_id, VersionSuffix(raw))
                 /\ ~HasVersionSuffix(out.paper_id)
                 /\ StartsWith(raw, out.paper_id)
            /\ out.pdf_url =
                 <<"h", "t", "t", "p", "s", ":", "/", "/", "a", "r", "x", "i", "v", ".",
                   "o", "r", "g", "/", "p", "d", "f", "/">> \o out.paper_id

C8_Witness ==
    /\ pc = "done"
    /\ HasVersionSuffix(Get(top_paper, "paper_id", Get(top_paper, "arxiv_id", <<>>)))
    /\ out.paper_id = <<"2", "5", ".", "1">>

(***************************************************************************)
(* Properties of the authors coercion (specification SpecAuthors).         *)
(***************************************************************************)

IsListOfStrings(v) ==
    /\ v.t = "list"
    /\ \A k \in 1..Len(v.items) : v.items[k].t = "str"

\* C9: for every string-valued authors field the coercion yields a sequence
\* of strings: the parsed JSON array when the parse succeeds, the trimmed
\* pieces of the comma split when it fails.
C9_AuthorsBecomeStringList ==
    (apc = "done" /\ authors_in.t = "str") =>
        /\ IsListOfStrings(authors_out)
        /\ LET j == JsonLoads(Replace(authors_in.s, "'", DQ))
           IN  IF j.ok THEN authors_out = j.v ELSE authors_out = CommaSplit(authors_in.s)

\* A list item was emitted and only blank lines lie between it and line n,
\* an ordinary line: line n is the non-list line that closes the list.
ClosesList(n) ==
    /\ LineKind(lines[n]) = "other"
    /\ \E j \in 1..(n - 1) :
         /\ LineKind(lines[j]) \in {"bullet", "numbered"}
         /\ \A k \in (j + 1)..(n - 1) : LineKind(lines[k]) = "blank"

\* C10: the transducer and the layout builder are total.  No step fails: the
\* read of the previously emitted line never finds the buffer empty, because
\* the buffer is non-empty whenever in_list is true; and the loop indices
\* stay within their sequences.
C10_Total ==
    /\ fpc # "error"
    /\ in_list => formatted_lines # <<>>
    /\ fpc \in {"loop", "chunk", "done"} => i \in 0..Len(lines)
    /\ fpc \in {"chunk", "done"} => start >= 0

\* A call that returned its blocks after an ordinary line closed an active list
C10_Witness ==
    /\ fpc = "done"
    /\ \E n \in 1..Len(lines) : ClosesList(n)
    /\ ~in_list
    /\ Len(blocks) > 7

\* The blocks of the summary body: those after the six blocks of the frame
\* and before the footer
FrameLen == Len(Frame(paper))

BodyBlocks ==
    IF fpc \in {"chunk", "done"}
    THEN SubSeq(blocks, FrameLen + 1, Len(blocks) - (IF fpc = "done" THEN 1 ELSE 0))
    ELSE <<>>

RECURSIVE ConcatTexts(_)
ConcatTexts(bs) ==
    IF bs = <<>> THEN <<>> ELSE Head(bs).text \o ConcatTexts(Tail(bs))

\* C11: no block of the summary body is longer than the block text limit, and
\* every chunk the boundary search cuts is at most max_chars long, which is
\* below that limit, so the truncation to the limit never alters a chunk: each
\* body block holds a slice of the transduced summary as it is.
C11_ChunksWithinLimit ==
    /\ max_chars <= BlockTextLimit
    /\ \A k \in 1..Len(BodyBlocks) :
          /\ BodyBlocks[k].type = "section"
          /\ Len(BodyBlocks[k].text) <= max_chars
          /\ Len(BodyBlocks[k].text) <= BlockTextLimit
          /\ HasSubstring(formatted_summary, BodyBlocks[k].text)

C11_Witness ==
    /\ fpc = "done"
    /\ Len(BodyBlocks) >= 2
    /\ \E k \in 1..Len(BodyBlocks) : Len(BodyBlocks[k].text) = max_chars
    /\ \E k \in 1..Len(BodyBlocks) : Len(BodyBlocks[k].text) < max_chars - 1

\* C12: the chunking loses nothing and keeps the order: the texts of the body
\* blocks, one after the other, are the part of the transduced summary that
\* has been cut so far, and the whole of it when the footer is on.
C12_ChunkingLossless ==
    /\ fpc = "chunk" => ConcatTexts(BodyBlocks) = PySlice(formatted_summary, 0, start)
    /\ fpc = "done" => ConcatTexts(BodyBlocks) = formatted_summary

C12_Witness ==
    /\ fpc = "done"
    /\ Len(BodyBlocks) >= 3
    /\ \E k \in 1..Len(BodyBlocks) : EndsWith(BodyBlocks[k].text, <<"\n", "\n">>)
    /\ \E k \in 1..Len(BodyBlocks) : EndsWith(BodyBlocks[k].text, <<" ">>)

\* C13: between the block that announces the summary and the footer there is
\* always at least one body block, for an empty summary too, and a paper
\* whose summary is absent or empty gets the one chunk 'No summary
\* available.'.
C13_AlwaysABodyChunk ==
    fpc = "done" =>
        /\ Len(BodyBlocks) >= 1
        /\ (~("summary" \in paper.keys) \/ paper.summary = <<>>)
              => ConcatTexts(BodyBlocks) = NoSummary

(***************************************************************************)
(* Properties of _truncate_text (specification SpecTrunc).                 *)
(***************************************************************************)

\* C14: for every text and every limit n the result is the text itself when
\* the text has at most n characters, and otherwise has exactly n characters,
\* the last three of them dots and the first n - 3 the first n - 3 of the text.
C14_TruncateContract ==
    tpc = "done" =>
        IF Len(trunc_text) <= trunc_limit
        THEN trunc_out = trunc_text
        ELSE /\ Len(trunc_out) = trunc_limit
             /\ EndsWith(trunc_out, <<".", ".", ".">>)
             /\ \A k \in 1..(trunc_limit - 3) : trunc_out[k] = trunc_text[k]

(***************************************************************************)
(* Properties of _format_markdown_for_slack inside _format_paper_blocks    *)
(* (specification SpecFmt).                                                *)
(***************************************************************************)

\* The lines of the summary as it was handed in
InputLines == Split(SummaryOf(paper), "\n")

\* The transducer has returned
Transduced == fpc \in {"chunk", "done"}

\* The bullet glyph, U+2022
BulletGlyph == "U+2022"

\* The text of a heading line: the marker of k characters taken off, the rest
\* stripped and one trailing colon removed
StatedHeadingText(line, k) ==
    LET t == Strip(SubSeq(line, k + 1, Len(line)))
    IN  IF t # <<>> /\ t[Len(t)] = ":" THEN SubSeq(t, 1, Len(t) - 1) ELSE t

\* What a heading line is said to become
StatedHeading(line) ==
    IF StartsWith(line, <<"#", " ">>)
    THEN <<"*">> \o StatedHeadingText(line, 2) \o <<"*">>
    ELSE IF StartsWith(line, <<"#", "#", " ">>)
    THEN <<"*">> \o StatedHeadingText(line, 3) \o <<"*">>
    ELSE <<BulletGlyph, " ", "*">> \o StatedHeadingText(line, 4) \o <<"*">>

IsHeadingLine(line) ==
    \/ StartsWith(line, <<"#", " ">>)
    \/ StartsWith(line, <<"#", "#", " ">>)
    \/ StartsWith(line, <<"#", "#", "#", " ">>)

\* The emitted lines hold the line e, with an empty line after it when gap
EmittedWithGap(e, gap) ==
    \E j \in 1..Len(formatted_lines) :
        /\ formatted_lines[j] = e
        /\ gap => j < Len(formatted_lines) /\ formatted_lines[j + 1] = <<>>

\* C15: a '# ' or '## ' line comes out as its text (marker and trailing colon
\* removed) between single asterisks, a '### ' line as the bullet glyph
\* U+2022, a space and its text between asterisks, each followed by an empty
\* line when the next input line is not blank.
C15_HeadingsAsStated ==
    Transduced =>
        \A k \in 1..Len(InputLines) :
            IsHeadingLine(InputLines[k]) =>
                EmittedWithGap(StatedHeading(InputLines[k]),
                               k < Len(InputLines) /\ Strip(InputLines[k + 1]) # <<>>)

\* A bare section-title line: stripped, it is not empty, shorter than the
\* limit, ends in a colon and starts with no heading, list or number marker
BareTitle(line) ==
    LET t == Strip(line)
    IN  /\ t # <<>>
        /\ Len(t) < SectionTitleLimit
        /\ t[Len(t)] = ":"
        /\ t[1] \notin {"#", "*", "-", "+"}
        /\ ~(Len(t) >= 2 /\ IsDigit(t[1]) /\ t[1] # "0" /\ t[2] = ".")

WithoutColon(t) == SubSeq(t, 1, Len(t) - 1)

NextLineNotBlank(k) == k < Len(InputLines) /\ Strip(InputLines[k + 1]) # <<>>

\* C16 as stated: a bare section-title line comes out with its trailing colon
\* stripped, between asterisks, followed by an empty line when the next line
\* is not blank.
C16_AsStated ==
    Transduced =>
        \A k \in 1..Len(InputLines) :
            BareTitle(InputLines[k]) =>
                EmittedWithGap(<<"*">> \o WithoutColon(Strip(InputLines[k])) \o <<"*">>,
                               NextLineNotBlank(k))

\* C16 as the code has it: a bare section-title line comes out stripped of
\* surrounding white space only, its colon kept, between asterisks, followed
\* by an empty line when the next line is not blank.
C16_TitleBoldWithGap ==
    Transduced =>
        \A k \in 1..Len(InputLines) :
            BareTitle(InputLines[k]) =>
                EmittedWithGap(<<"*">> \o Strip(InputLines[k]) \o <<"*">>,
                               NextLineNotBlank(k))

C16_Witness ==
    /\ fpc = "done"
    /\ \E k \in 1..Len(InputLines) :
          /\ BareTitle(InputLines[k])
          /\ NextLineNotBlank(k)
          /\ Len(Strip(InputLines[k])) = 1
    /\ i = Len(lines)

KeyFindingsBold == <<"*">> \o KeyFindingsMarkdown \o <<"*">>

\* C17: a section title is emitted as the whole stripped line, the colon
\* included: every bare title line comes out as an asterisk, the stripped
\* line ending in its colon, and an asterisk, and 'Key Findings:' comes out as
\* '*Key Findings:*'.
C17_TitleKeepsColon ==
    Transduced =>
        /\ \A k \in 1..Len(InputLines) :
              BareTitle(InputLines[k]) =>
                  \E j \in 1..Len(formatted_lines) :
                      /\ formatted_lines[j] = <<"*">> \o Strip(InputLines[k]) \o <<"*">>
                      /\ EndsWith(formatted_lines[j], <<":", "*">>)
        /\ SummaryOf(paper) = KeyFindingsMarkdown => formatted_summary = KeyFindingsBold

C17_Witness ==
    /\ fpc = "done"
    /\ SummaryOf(paper) = KeyFindingsMarkdown
    /\ ConcatTexts(BodyBlocks) = KeyFindingsBold

Fence == <<Backtick, Backtick, Backtick>>

\* The text is one fenced code block: a delimiter line, lines that are no
\* delimiters, and a delimiter line
IsFencedBlock(ls) ==
    /\ Len(ls) >= 2
    /\ StartsWith(ls[1], Fence)
    /\ StartsWith(ls[Len(ls)], Fence)
    /\ \A k \in 2..(Len(ls) - 1) : ~StartsWith(ls[k], Fence)

\* The text is one line that is an inline code span
IsCodeSpanLine(ls) ==
    /\ Len(ls) = 1
    /\ Len(ls[1]) > 2
    /\ ls[1][1] = Backtick
    /\ ls[1][Len(ls[1])] = Backtick

\* C20: code passes through unchanged: a fenced code block, its delimiter
\* lines and every line between them, and a line that is one inline code span
\* come out exactly as they went in, nothing rewritten and no line inserted.
C20_CodeUnchanged ==
    (Transduced /\ (IsFencedBlock(InputLines) \/ IsCodeSpanLine(InputLines)))
        => formatted_summary = SummaryOf(paper)

(***************************************************************************)
(* Properties of _process_inline_formatting (specification SpecInline).    *)
(***************************************************************************)

\* What a piece is said to become
Stated(seg) ==
    CASE seg.kind = "plain"  -> seg.body
      [] seg.kind = "bold"   -> <<"*">> \o seg.body \o <<"*">>
      [] seg.kind = "colon"  -> <<"*">> \o seg.body \o <<":", "*">>
      [] seg.kind = "italic" -> <<"_">> \o seg.body \o <<"_">>

RECURSIVE StatedAll(_)
StatedAll(segs) ==
    IF segs = <<>> THEN <<>> ELSE Stated(Head(segs)) \o StatedAll(Tail(segs))

RECURSIVE CountOf(_, _)
CountOf(s, c) ==
    IF s = <<>> THEN 0 ELSE (IF Head(s) = c THEN 1 ELSE 0) + CountOf(Tail(s), c)

SpansOf(segs, kinds) == Cardinality({k \in 1..Len(segs) : segs[k].kind \in kinds})

\* C19: every '**text**' becomes '*text*' (each of several spans on its own),
\* every '**words:**' becomes '*words:*', every '__text__' becomes '_text_',
\* all other characters stay as they are, and no span is wrapped twice: the
\* result has two asterisks for each bold span and two underscores for each
\* italic span, no more.
C19_InlineSpansRewritten ==
    ipc = "done" =>
        /\ inline_out = StatedAll(inline_segs)
        /\ CountOf(inline_out, "*") = 2 * SpansOf(inline_segs, {"bold", "colon"})
        /\ CountOf(inline_out, "_") = 2 * SpansOf(inline_segs, {"italic"})

(***************************************************************************)
(* Properties of _format_markdown_for_slack applied twice (specification   *)
(* SpecTwice).                                                             *)
(***************************************************************************)

\* The second call has returned
SecondReturned == fpc = "returned" /\ pass = 2

\* C18 as stated: the conversion is idempotent: applied to its own output the
\* transducer returns that output again, so no marker is added or removed by
\* the second application.
C18_AsStated ==
    SecondReturned =>
        /\ formatted_summary = first_out
        /\ CountOf(formatted_summary, "*") = CountOf(first_out, "*")
        /\ CountOf(formatted_summary, "_") = CountOf(first_out, "_")

\* A text the transducer has nothing left to do on: no doubled asterisk or
\* underscore, no single line break between two characters, no blank line
\* that holds white space, and no line that reads as a heading, a bullet item
\* or a section title
Settled(t) ==
    /\ ~HasSubstring(t, <<"*", "*">>)
    /\ ~HasSubstring(t, <<"_", "_">>)
    /\ EnsureLineBreaks(t, 1) = t
    /\ \A k \in 1..Len(Split(t, "\n")) :
          LET line == Split(t, "\n")[k]
          IN  /\ LineKind(line) \in {"blank", "numbered", "fence", "inline_code", "other"}
              /\ LineKind(line) = "blank" => line = <<>>

\* C18 as the code has it: the second application returns the first output
\* unchanged when that output is settled.
C18_StableWhenSettled ==
    (SecondReturned /\ Settled(first_out)) => formatted_summary = first_out

C18_Witness ==
    /\ SecondReturned
    /\ Settled(first_out)
    /\ formatted_summary = first_out
    /\ HasSubstring(first_out, <<"*", "a", "*", " ", "_", "b", "_">>)

(***************************************************************************)
(* Properties of the list state of the transducer (specification SpecFmt). *)
(***************************************************************************)

\* A step of the line loop: the line at i is consumed
LineStep == fpc = "loop" /\ i < Len(lines) /\ i' = i + 1

\* The line the step has emitted last
Emitted == formatted_lines'[Len(formatted_lines')]

\* The number of spaces said to stand before the bullet glyph
StatedBulletSpaces(indent) ==
    IF indent > list_indent THEN 3
    ELSE IF indent < list_indent /\ indent > 0 THEN 1
    ELSE 0

BulletEmittedWith(n) ==
    \E j \in 1..Len(formatted_lines) :
        StartsWith(formatted_lines[j], [k \in 1..n |-> " "] \o Bullet)

NumberMarked(line) ==
    LET ls == LeadingSpaces(line)
        de == DigitsEnd(line, ls + 1)
    IN  /\ de > ls + 1
        /\ de + 1 <= Len(line)
        /\ line[de] = "."
        /\ line[de + 1] = " "

\* What the numbered-list rule makes of a number-marked line: the leading
\* white space, the digits and the full stop as they are, a space, and the
\* rest with the inline formatting applied
StatedNumbered(line) ==
    LET ls == LeadingSpaces(line)
        de == DigitsEnd(line, ls + 1)
    IN  SubSeq(line, 1, de) \o <<" ">>
            \o ProcessInlineFormatting(SubColonBold(SubSeq(line, de + 2, Len(line))))

\* C25: every number-marked line, whatever its digits, is rendered by the
\* numbered-list rule and sets in_list, and is never rendered as a section
\* title, even when it ends in a colon and is shorter than 50 characters.
C25_NumberedNeverTitle ==
    [][(LineStep /\ NumberMarked(Cur)) =>
          /\ Emitted = StatedNumbered(Cur)
          /\ in_list']_vars

\* The emitted lines end in the line just emitted with exactly one empty line
\* before it
OneBlankBeforeEmitted ==
    LET n == Len(formatted_lines')
    IN  /\ n >= 3
        /\ formatted_lines'[n - 1] = <<>>
        /\ formatted_lines'[n - 2] # <<>>

\* C26: an ordinary line that is not blank and is no bullet or numbered item
\* closes the list when in_list is true: in_list becomes false and exactly one
\* empty line stands between the list and the line, inserted unless the line
\* emitted before is empty already.  Bullet and numbered items set in_list,
\* and every other line leaves it as it is.
C26_ListClosing ==
    [][LineStep =>
         CASE LineKind(Cur) \in {"bullet", "numbered"} -> in_list'
           [] LineKind(Cur) = "other" /\ in_list ->
                /\ ~in_list'
                /\ OneBlankBeforeEmitted
                /\ Len(formatted_lines') = Len(formatted_lines) +
                      (IF formatted_lines[Len(formatted_lines)] = <<>> THEN 1 ELSE 2)
           [] OTHER -> in_list' = in_list]_vars

\* An ordinary line after the rewriting of lines 269-272
Rewritten(line) == ProcessInlineFormatting(SubColonBold(line))

\* The rewritten line reads as a list item
ReadsAsItem(line) == IsBulletItem(Rewritten(line)) \/ IsNumberedItem(Rewritten(line))

\* C26 as the code has it: the list is closed by an ordinary line that, after
\* its inline rewriting, does not read as a bullet or numbered item; an
\* ordinary line that reads as one after the rewriting leaves in_list true.
C26_ClosedByRewrittenLine ==
    [][LineStep =>
         CASE LineKind(Cur) \in {"bullet", "numbered"} -> in_list'
           [] LineKind(Cur) = "other" /\ in_list /\ ~ReadsAsItem(Cur) ->
                /\ ~in_list'
                /\ OneBlankBeforeEmitted
                /\ Emitted = Rewritten(Cur)
                /\ Len(formatted_lines') = Len(formatted_lines) +
                      (IF formatted_lines[Len(formatted_lines)] = <<>> THEN 1 ELSE 2)
           [] OTHER -> in_list' = in_list]_vars

C26_Witness ==
    /\ fpc = "loop"
    /\ i >= 3
    /\ LineKind(lines[1]) \in {"bullet", "numbered"}
    /\ LineKind(lines[i]) = "other"
    /\ ~ReadsAsItem(lines[i])
    /\ ~in_list
    /\ formatted_lines[Len(formatted_lines) - 1] = <<>>

(***************************************************************************)
(* Properties of the chunk loop (specification SpecFmt).                   *)
(***************************************************************************)

\* An iteration of the chunk loop
ChunkIteration == fpc = "chunk" /\ start < Len(formatted_summary) /\ start' # start

\* The text of the block the iteration has added
NewChunk == blocks'[Len(blocks')].text

\* Where the chunk that starts at st is said to end: with more than max_chars
\* characters left, just after the last paragraph break found in the window
\* [st, st + max_chars), else just after the last line break found there,
\* else just after the last space found there, else at the end of the window
StatedChunkEnd(fs, st) ==
    LET pb == RFind(fs, <<"\n", "\n">>, st, st + max_chars)
        nl == RFind(fs, <<"\n">>, st, st + max_chars)
        sp == RFind(fs, <<" ">>, st, st + max_chars)
    IN  IF Len(fs) - st > max_chars
        THEN IF pb # -1 THEN pb + 2
             ELSE IF nl # -1 THEN nl + 1
             ELSE IF sp # -1 THEN sp + 1
             ELSE st + max_chars
        ELSE Len(fs)

\* C27 as stated: the chunk ends by the priority paragraph break, line break,
\* space, hard cut, each break being the last one found anywhere in the
\* window from start on; a rest of at most max_chars characters is one chunk.
C27_AsStated ==
    [][ChunkIteration =>
          NewChunk = PySlice(formatted_summary, start,
                             StatedChunkEnd(formatted_summary, start))]_vars

\* The last break of the kind sub that lies in the window and after its
\* first position, or -1
LastBreakAfterStart(fs, sub, st) ==
    LET c == {k \in (st + 1)..(st + max_chars - Len(sub)) :
                 k + Len(sub) <= Len(fs) /\ SubSeq(fs, k + 1, k + Len(sub)) = sub}
    IN  IF c = {} THEN -1 ELSE Max(c)

AmendedChunkEnd(fs, st) ==
    LET pb == LastBreakAfterStart(fs, <<"\n", "\n">>, st)
        nl == LastBreakAfterStart(fs, <<"\n">>, st)
        sp == LastBreakAfterStart(fs, <<" ">>, st)
    IN  IF Len(fs) - st > max_chars
        THEN IF pb # -1 THEN pb + 2
             ELSE IF nl # -1 THEN nl + 1
             ELSE IF sp # -1 THEN sp + 1
             ELSE st + max_chars
        ELSE Len(fs)

\* C27 as the code has it: a break that lies at the cursor itself is not
\* taken; the chunk ends just after the last paragraph break after the cursor
\* in the window, else after the last line break after it, else after the
\* last space after it, else at the end of the window.  Every chunk but the
\* last ends in a line break or a space or is exactly max_chars long, and a
\* rest of at most max_chars characters is one chunk.
C27_BreakAfterCursor ==
    [][ChunkIteration =>
          /\ NewChunk = PySlice(formatted_summary, start,
                                AmendedChunkEnd(formatted_summary, start))
          /\ start' < Len(formatted_summary) =>
                \/ NewChunk[Len(NewChunk)] \in {"\n", " "}
                \/ Len(NewChunk) = max_chars
          /\ Len(formatted_summary) - start <= max_chars =>
                start' >= Len(formatted_summary)]_vars

C27_Witness ==
    /\ fpc = "done"
    /\ Len(BodyBlocks) >= 2
    /\ formatted_summary[1] = "\n"
    /\ Len(BodyBlocks[1].text) > 1
    /\ BodyBlocks[1].text[Len(BodyBlocks[1].text)] = " "

\* C28: the chunk loop terminates for every summary: once the loop has
\* started the footer is reached; each iteration emits a chunk that is not
\* empty and moves the cursor forward; and the loop is left exactly when the
\* cursor has reached or passed the end of the transduced summary.
C28_ChunkLoopTerminates ==
    /\ (fpc = "chunk") ~> (fpc = "done")
    /\ [][ChunkIteration => (start' > start /\ NewChunk # <<>>)]_vars
    /\ [][(fpc = "chunk" /\ fpc' = "done") => start >= Len(formatted_summary)]_vars
    /\ [](fpc = "done" => start >= Len(formatted_summary))

C28_Witness ==
    /\ fpc = "done"
    /\ Len(BodyBlocks) >= 3
    /\ start > Len(formatted_summary)

(***************************************************************************)
(* Properties of the layout (specification SpecFmt).                       *)
(***************************************************************************)

\* The paper with another summary, or none
WithSummary(p, keys, sm) == [p EXCEPT !.keys = keys, !.summary = sm]

IsFieldSection(b) == b.type = "section" /\ Len(b.fields) = 2 /\ b.text = <<>>

IsTextSection(b) == b.type = "section" /\ b.fields = <<>>

\* C29: the layout has a fixed frame: its first six blocks are the header
\* with the title cut to the title limit, a divider, two field sections, a
\* divider and the text section that announces the summary; its last block is
\* the one context block; every block between them is a text section of the
\* body; there are at least six blocks; and the frame and the footer are the
\* same whatever the summary is.
C29_FixedFrame ==
    fpc = "done" =>
        /\ Len(blocks) >= 6
        /\ blocks[1].type = "header"
        /\ Len(blocks[1].text) <= TitleLimit
        /\ blocks[2].type = "divider"
        /\ IsFieldSection(blocks[3])
        /\ IsFieldSection(blocks[4])
        /\ blocks[5].type = "divider"
        /\ IsTextSection(blocks[6]) /\ blocks[6].text = SummaryHeader
        /\ blocks[Len(blocks)].type = "context"
        /\ \A k \in 1..(Len(blocks) - 1) : blocks[k].type # "context"
        /\ \A k \in 7..(Len(blocks) - 1) : IsTextSection(blocks[k])
        /\ \A sm \in {<<>>, <<"x">>} :
              /\ SubSeq(blocks, 1, 6) = Frame(WithSummary(paper, paper.keys, sm))
              /\ blocks[Len(blocks)] = Footer(WithSummary(paper, paper.keys, sm))
        /\ SubSeq(blocks, 1, 6) = Frame(WithSummary(paper, paper.keys \ {"summary"}, <<>>))

C29_Witness ==
    /\ fpc = "done"
    /\ Len(blocks[1].text) = TitleLimit
    /\ EndsWith(blocks[1].text, <<".", ".", ".">>)
    /\ Len(blocks) >= 9

(***************************************************************************)
(* The date filter of the resolver (specification Spec).                   *)
(***************************************************************************)

\* The candidate date at which the search stopped
ResolvedDate == examined[Len(examined)]

MatchesByDate(r, d) == StartsWith(r.date, d)

MatchesByCreated(r, d) == SplitFirst(r.created, "T") = d

\* C30 as stated: where the table has a date field the selected row matches
\* the resolved date by its date field; its created field is consulted only
\* where there is no date field.
C30_AsStated ==
    Found =>
        IF "date" \in df.cols
        THEN MatchesByDate(Selected, ResolvedDate)
        ELSE "created" \in df.cols /\ MatchesByCreated(Selected, ResolvedDate)

\* The rows the filter keeps for the candidate date d, as the code has it:
\* the rows matching by the date field, and when there are none, or no date
\* field, the rows matching by the created field
KeptFor(d) ==
    LET by_date == IF "date" \in df.cols
                   THEN {r \in df.rows : MatchesByDate(r, d)} ELSE {}
    IN  IF by_date # {} THEN by_date
        ELSE IF "created" \in df.cols
        THEN {r \in df.rows : MatchesByCreated(r, d)} ELSE {}

\* C30 as the code has it: the created field is consulted when the table has
\* no date field and also when no row matches the candidate date by its date
\* field; the selected row is one the filter keeps for the resolved date, and
\* the filter keeps nothing for the candidate dates examined before it.
C30_CreatedWhenNoDateMatch ==
    Found =>
        /\ \E r \in KeptFor(ResolvedDate) :
             r.date = Selected.date /\ r.created = Selected.created
        /\ \A k \in 1..(Len(examined) - 1) : KeptFor(examined[k]) = {}

C30_Witness ==
    /\ Found
    /\ {"date", "created"} \subseteq df.cols
    /\ ~MatchesByDate(Selected, ResolvedDate)
    /\ MatchesByCreated(Selected, ResolvedDate)
    /\ \E r \in df.rows : MatchesByDate(r, Strftime(Strptime(ResolvedDate) - 1))

(***************************************************************************)
(* check_slack_posting (specification SpecCheck).                          *)
(***************************************************************************)

\* The items hold a post_paper_to_slack tool_use at a and, at b, the
\* tool_result whose id is that call's id followed by '_result'
CallWithResult(a, b) ==
    /\ IsSlackPostToolCall(new_items[a])
    /\ IsResultOf(new_items[b], new_items[a].id)

SucceededAt(b) ==
    /\ new_items[b].has_result
    /\ "success" \in new_items[b].tool_result.keys
    /\ new_items[b].tool_result.success

ItemPairs == (1..Len(new_items)) \X (1..Len(new_items))

\* C23: check_slack_posting returns a record and never raises;
\* slack_post_successful is true, with the message_url and channel of the
\* result, exactly when the items hold a post_paper_to_slack tool_use and a
\* tool_result of that call's id and '_result' whose success is true; without
\* such a tool_use the error is 'No post_paper_to_slack tool call found'; in
\* every other case slack_post_successful is false and there is an error string.
C23_CheckReturnsARecord ==
    cpc = "done" =>
        /\ check_ret.kind = "returned"
        /\ check_ret.slack_post_successful
             <=> \E ab \in ItemPairs : CallWithResult(ab[1], ab[2]) /\ SucceededAt(ab[2])
        /\ check_ret.slack_post_successful =>
             \E ab \in ItemPairs :
                /\ CallWithResult(ab[1], ab[2]) /\ SucceededAt(ab[2])
                /\ check_ret.message_url =
                     DictGet(new_items[ab[2]].tool_result, "message_url", <<>>)
                /\ check_ret.channel =
                     DictGet(new_items[ab[2]].tool_result, "channel", <<>>)
        /\ (~\E a \in 1..Len(new_items) : IsSlackPostToolCall(new_items[a])) =>
             check_ret.error = <<"No post_paper_to_slack tool call found">>
        /\ ~check_ret.slack_post_successful =>
             ("error" \in check_ret.keys /\ check_ret.error # <<>>)

(***************************************************************************)
(* post_paper_to_slack (specification SpecPost).                           *)
(***************************************************************************)

\* The chat_postMessage call was made and it returned
ApiCallReturned == \E k \in 1..Len(api_calls) : api_calls[k].outcome = "returned"

\* C22: post_paper_to_slack never raises and returns a record with a boolean
\* success; success is true, with channel and message_url, exactly when the
\* chat_postMessage call returned; on every failure success is false and
\* error is a non-empty string; without a token no layout is built and no
\* message is sent; an empty channel is replaced by the default channel
\* before sending.
C22_PostNeverRaises ==
    /\ spc = "done" =>
         /\ post_ret.kind = "returned"
         /\ "success" \in post_ret.keys
         /\ post_ret.success \in BOOLEAN
         /\ post_ret.success <=> ApiCallReturned
         /\ post_ret.success =>
              /\ {"channel", "message_url"} \subseteq post_ret.keys
              /\ post_ret.channel # <<>>
              /\ post_ret.message_url # <<>>
         /\ ~post_ret.success =>
              ("error" \in post_ret.keys /\ post_ret.error # <<>>)
         /\ slack_token \in {"None", ""} =>
              (~post_ret.success /\ fpc = "idle" /\ blocks = <<>> /\ api_calls = <<>>)
    /\ \A k \in 1..Len(api_calls) :
         /\ api_calls[k].channel # <<>>
         /\ api_calls[k].blocks # <<>>
    /\ [][(spc = "start" /\ spc' # "start") =>
             channel' = (IF channel = <<>> THEN DEFAULT_CHANNEL ELSE channel)]_vars
    /\ [][\A k \in 1..Len(api_calls') :
             k > Len(api_calls) =>
                (spc = "layout" /\ api_calls'[k].channel = channel)]_vars
    /\ [][spc = "done" => UNCHANGED vars]_vars

\* The call with an empty channel and a token has posted to the default channel
C22_Witness ==
    /\ spc = "done"
    /\ post_ret.success
    /\ post_ret.channel = DEFAULT_CHANNEL
    /\ Len(api_calls) = 1
    /\ api_calls[1].channel = DEFAULT_CHANNEL
    /\ Len(api_calls[1].blocks) > FrameLen

(***************************************************************************)
(* Two calls interleaved (specification SpecPair).                         *)
(***************************************************************************)

\* The list state, the buffer of emitted lines and the chunk cursor of frame f
CallState(f) ==
    <<f.in_list, f.list_indent, f.prev_was_empty, f.formatted_lines, f.start>>

\* C21: two calls with different inputs interleaved step by step each return
\* what they return when run alone; a step of one call leaves the list state,
\* the emitted lines and the chunk cursor of the other call as they were, and
\* a call goes on with the values it was suspended with.
C21_NoStateAcrossCalls ==
    /\ (phase = "together" /\ fpc = "done") => blocks = alone[call]
    /\ (phase = "together" /\ parked[1].fpc = "done") =>
          parked[1].blocks = alone[3 - call]
    /\ [][(phase = "together" /\ call' = call) => parked' = parked]_vars
    /\ [][(phase = "together" /\ call' # call) =>
             /\ CallState(ThisFrame') = CallState(parked[1])
             /\ CallState(parked'[1]) = CallState(ThisFrame)
             /\ ThisFrame' = parked[1]]_vars

\* The second call has returned what it returns alone while the first call
\* stands in the middle of its line loop, inside a list, with lines emitted
C21_Witness ==
    /\ phase = "together"
    /\ call = 2
    /\ fpc = "done"
    /\ blocks = alone[2]
    /\ alone[1] # alone[2]
    /\ parked[1].fpc = "loop"
    /\ parked[1].i > 0
    /\ parked[1].in_list
    /\ parked[1].formatted_lines # <<>>
====
